---- MODULE Spec2Model ----
(***************************************************************************)
(* Model of the multi-source fitness data platform: the connector          *)
(* contract and rate-limited executor (connectors/base.py), the            *)
(* deduplication engine (core/deduplication.py), the calorie cascade and   *)
(* its calibration loop (core/calorie_calculator.py,                       *)
(* core/multi_athlete_calorie_calculator.py) and the ingestion             *)
(* orchestrator (core/data_ingestion.py).                                  *)
(*                                                                         *)
(* Conventions.  A Python exception is the name of its class, "" when      *)
(* nothing was raised.  Times are seconds, durations seconds.  None of a   *)
(* numeric Optional field is the integer None, None of a string field the  *)
(* string "None".  Python dicts are functions; a dict that is None or {}   *)
(* is the function with the empty domain (the code only tests their        *)
(* truthiness).  Real numbers are exact rationals <<num, den>>, den > 0.   *)
(***************************************************************************)
EXTENDS Integers, Sequences, FiniteSets, TLC

(***************************************************************************)
(* Bounds of the model.                                                    *)
(***************************************************************************)
MaxFetch == 1         \* records one fetch returns at most
MaxBio == 1           \* biometric readings one fetch returns at most
MaxCycles == 2        \* sync cycles run in a row
MaxGroup == 3         \* workouts handed to the deduplication engine at once
MaxCalls == 3         \* make_request calls in a row
MaxCalib == 3         \* operations of the multi-athlete calculator in a row
MaxRegs == 2          \* register_connector calls in a row
MaxReadings == 2      \* readings handed to deduplicate_biometrics at once

None == -1
NoExc == ""

(***************************************************************************)
(* Sequence helpers (Python list operations).                              *)
(***************************************************************************)
Range(s) == {s[i] : i \in 1..Len(s)}

InList(x, s) == \E i \in 1..Len(s) : s[i] = x

RECURSIVE FirstIndex(_, _, _)
FirstIndex(x, s, i) ==
    IF i > Len(s) THEN 0
    ELSE IF s[i] = x THEN i
    ELSE FirstIndex(x, s, i + 1)

\* list.remove(x): drops the first element equal to x
ListRemove(s, x) ==
    LET k == FirstIndex(x, s, 1)
    IN IF k = 0 THEN s
       ELSE [i \in 1..(Len(s) - 1) |-> IF i < k THEN s[i] ELSE s[i + 1]]

RECURSIVE RemoveAll(_, _)
RemoveAll(s, xs) ==
    IF xs = <<>> THEN s
    ELSE RemoveAll(IF InList(Head(xs), s) THEN ListRemove(s, Head(xs)) ELSE s,
                   Tail(xs))

RECURSIVE SeqSum(_)
SeqSum(s) == IF s = <<>> THEN 0 ELSE Head(s) + SeqSum(Tail(s))

RECURSIVE SeqMax(_)
SeqMax(s) ==
    IF Len(s) = 1 THEN s[1]
    ELSE LET m == SeqMax(Tail(s)) IN IF s[1] >= m THEN s[1] ELSE m

Abs(n) == IF n < 0 THEN -n ELSE n
Max2(a, b) == IF a >= b THEN a ELSE b
Min2(a, b) == IF a <= b THEN a ELSE b

\* all sequences over S of length at most n
SeqsUpTo(S, n) == UNION {[1..k -> S] : k \in 0..n}
NoRepeat(s) == \A i, j \in 1..Len(s) : i /= j => s[i] /= s[j]

(***************************************************************************)
(* Data model (core/models.py).  HasAttr tells whether a pydantic model    *)
(* instance has the attribute: reading an attribute that the class does    *)
(* not declare raises AttributeError, constructing an instance without a   *)
(* required field raises ValidationError, unknown keyword arguments are    *)
(* ignored.                                                                *)
(***************************************************************************)
WorkoutFields ==
    {"workout_id", "start_time", "end_time", "duration", "sport",
     "sport_category", "distance", "calories", "heart_rate_avg",
     "heart_rate_max", "elevation_gain", "power_avg", "cadence_avg",
     "training_load", "perceived_exertion", "has_gps", "route_hash",
     "gps_data", "data_source", "external_ids", "raw_data",
     "data_quality_score", "ml_features_extracted", "plugin_data"}

WorkoutRequired ==
    {"workout_id", "start_time", "end_time", "duration", "sport",
     "sport_category", "data_source"}

BiometricFields ==
    {"date_value", "metric_type", "value", "unit", "data_source",
     "confidence", "external_id"}

BiometricRequired ==
    {"date_value", "metric_type", "value", "unit", "data_source"}

UserProfileRequired == {"user_id", "age", "gender", "weight_kg"}

HasAttr(obj, name) == name \in DOMAIN obj

EmptyDict == [k \in {} |-> 0]
NoGpsData == [keys |-> {}, coordinates |-> <<>>]
DictTruthy(d) == DOMAIN d /= {}
GpsTruthy(g) == g.keys /= {}
StrTruthy(s) == s /= "None" /\ s /= ""

\* Workout(**kwargs): the declared fields with their defaults, or ValidationError
WorkoutDefaults ==
    [distance |-> None, calories |-> None, heart_rate_avg |-> None,
     heart_rate_max |-> None, elevation_gain |-> None, power_avg |-> None,
     cadence_avg |-> None, training_load |-> None, perceived_exertion |-> None,
     has_gps |-> FALSE, route_hash |-> "None", gps_data |-> NoGpsData,
     external_ids |-> EmptyDict, raw_data |-> EmptyDict,
     data_quality_score |-> 100, ml_features_extracted |-> FALSE,
     plugin_data |-> EmptyDict]

NewWorkout(kwargs) ==
    IF ~(WorkoutRequired \subseteq DOMAIN kwargs)
    THEN [exc |-> "ValidationError", val |-> kwargs]
    ELSE [exc |-> NoExc,
          val |-> [f \in WorkoutFields |->
                     IF f \in DOMAIN kwargs THEN kwargs[f] ELSE WorkoutDefaults[f]]]

BiometricDefaults == [confidence |-> 100, external_id |-> "None"]

NewBiometric(kwargs) ==
    IF ~(BiometricRequired \subseteq DOMAIN kwargs)
    THEN [exc |-> "ValidationError", val |-> kwargs]
    ELSE [exc |-> NoExc,
          val |-> [f \in BiometricFields |->
                     IF f \in DOMAIN kwargs THEN kwargs[f] ELSE BiometricDefaults[f]]]

(***************************************************************************)
(* Deduplication engine (core/deduplication.py).                           *)
(***************************************************************************)
PRECEDENCE ==
    <<"garmin", "strava", "fitbit", "oura", "whoop", "withings", "healthkit",
      "health_connect">>
TEMPORAL_THRESHOLD_MINUTES == 5
DURATION_THRESHOLD_PERCENT == 10
GPS_SIMILARITY_THRESHOLD_TENTHS == 8
GPS_MATCH_METERS == 10

\* the order in which the model walks the keys of an external_ids dict
SourceOrder == PRECEDENCE \o <<"polar">>

\* _get_source_precedence
GetSourcePrecedence(source) ==
    IF InList(source, PRECEDENCE)
    THEN FirstIndex(source, PRECEDENCE, 1) - 1
    ELSE Len(PRECEDENCE)

\* the (source, ext_id) keys of one workout, empty ids skipped
RECURSIVE KeysFrom(_, _)
KeysFrom(w, i) ==
    IF i > Len(SourceOrder) THEN <<>>
    ELSE LET s == SourceOrder[i]
         IN (IF s \in DOMAIN w.external_ids /\ w.external_ids[s] /= ""
             THEN << <<s, w.external_ids[s]>> >> ELSE <<>>)
            \o KeysFrom(w, i + 1)

KeysOf(w) == KeysFrom(w, 1)

RECURSIVE AppendNew(_, _)
AppendNew(acc, ks) ==
    IF ks = <<>> THEN acc
    ELSE AppendNew(IF InList(Head(ks), acc) THEN acc ELSE Append(acc, Head(ks)),
                   Tail(ks))

RECURSIVE AllKeys(_, _)
AllKeys(workouts, acc) ==
    IF workouts = <<>> THEN acc
    ELSE AllKeys(Tail(workouts), AppendNew(acc, KeysOf(Head(workouts))))

RECURSIVE GroupsOfKeys(_, _)
GroupsOfKeys(workouts, keys) ==
    IF keys = <<>> THEN <<>>
    ELSE LET HasKey(w) == InList(Head(keys), KeysOf(w))
             g == SelectSeq(workouts, HasKey)
         IN (IF Len(g) > 1 THEN <<g>> ELSE <<>>) \o GroupsOfKeys(workouts, Tail(keys))

\* _group_by_external_ids: the groups of more than one workout, in key order
GroupByExternalIds(workouts) == GroupsOfKeys(workouts, AllKeys(workouts, <<>>))

\* _are_temporally_similar: the division by max(duration) raises when both
\* durations are 0 and the start times are within the threshold
TemporalZeroDivision(w1, w2) ==
    /\ Abs(w1.start_time - w2.start_time) <= TEMPORAL_THRESHOLD_MINUTES * 60
    /\ Max2(w1.duration, w2.duration) = 0

AreTemporallySimilar(w1, w2) ==
    /\ ~(Abs(w1.start_time - w2.start_time) > TEMPORAL_THRESHOLD_MINUTES * 60)
    /\ ~(Abs(w1.duration - w2.duration) * 100
           > DURATION_THRESHOLD_PERCENT * Max2(w1.duration, w2.duration))
    /\ ~(w1.sport_category /= w2.sport_category)

\* the j > i not yet processed that the inner loop compares with workouts[i]
Later(workouts, i, processed) == {j \in (i + 1)..Len(workouts) : j \notin processed}

RECURSIVE Pick(_, _, _)
Pick(workouts, idx, j) ==
    IF j > Len(workouts) THEN <<>>
    ELSE (IF j \in idx THEN <<workouts[j]>> ELSE <<>>) \o Pick(workouts, idx, j + 1)

\* the group opened by workouts[i] (if it found a match) ahead of the later ones
WithGroup(workouts, i, m, rest) ==
    [exc |-> rest.exc,
     groups |-> (IF m /= {} THEN <<Pick(workouts, {i} \cup m, 1)>> ELSE <<>>)
                \o rest.groups]

RECURSIVE TemporalFrom(_, _, _)
\* workouts[i] with its matches m, then the rest of the outer loop
TemporalMatch(workouts, i, processed, m) ==
    WithGroup(workouts, i, m,
              TemporalFrom(workouts, i + 1, processed \cup {i} \cup m))

TemporalFrom(workouts, i, processed) ==
    IF i > Len(workouts) THEN [exc |-> NoExc, groups |-> <<>>]
    ELSE IF i \in processed THEN TemporalFrom(workouts, i + 1, processed)
    ELSE IF \E j \in Later(workouts, i, processed) :
                TemporalZeroDivision(workouts[i], workouts[j])
         THEN [exc |-> "ZeroDivisionError", groups |-> <<>>]
         ELSE TemporalMatch(workouts, i, processed,
                  {j \in Later(workouts, i, processed) :
                      AreTemporallySimilar(workouts[i], workouts[j])})

\* _group_by_temporal_similarity
GroupByTemporalSimilarity(workouts) == TemporalFrom(workouts, 1, {})

\* _coordinates_within_distance: coordinates are metres east and north of a
\* reference point; a coordinate with fewer than two entries makes the
\* indexing raise, which the function catches and answers False
CoordinatesWithinDistance(c1, c2, max_distance_meters) ==
    IF Len(c1) < 2 \/ Len(c2) < 2 THEN FALSE
    ELSE (c1[1] - c2[1]) * (c1[1] - c2[1]) + (c1[2] - c2[2]) * (c1[2] - c2[2])
           <= max_distance_meters * max_distance_meters

\* _calculate_gps_similarity as the pair <<matches, total>> (0/1 for 0.0)
GpsTotalFirst(coords1, coords2) == Len(coords1)

GpsTotal(coords1, coords2) == Min2(Len(coords1), Len(coords2))

GpsMatches(coords1, coords2, total) ==
    Cardinality({i \in 1..total :
                    /\ i <= Len(coords1) /\ i <= Len(coords2)
                    /\ CoordinatesWithinDistance(coords1[i], coords2[i],
                                                 GPS_MATCH_METERS)})

GpsRatio(coords1, coords2, total) ==
    IF coords1 = <<>> \/ coords2 = <<>> THEN <<0, 1>>
    ELSE IF total > 0 THEN <<GpsMatches(coords1, coords2, total), total>>
    ELSE <<0, 1>>

CalculateGpsSimilarity(gps1, gps2) ==
    GpsRatio(gps1.coordinates, gps2.coordinates,
             GpsTotal(gps1.coordinates, gps2.coordinates))

\* similarity >= GPS_SIMILARITY_THRESHOLD
AtLeastThreshold(sim) == sim[1] * 10 >= GPS_SIMILARITY_THRESHOLD_TENTHS * sim[2]

\* _are_gps_similar
AreGpsSimilar(w1, w2) ==
    IF ~(w1.has_gps /\ w2.has_gps) THEN FALSE
    ELSE IF StrTruthy(w1.route_hash) /\ StrTruthy(w2.route_hash)
         THEN w1.route_hash = w2.route_hash
    ELSE IF GpsTruthy(w1.gps_data) /\ GpsTruthy(w2.gps_data)
         THEN AtLeastThreshold(CalculateGpsSimilarity(w1.gps_data, w2.gps_data))
    ELSE FALSE

RECURSIVE GpsFrom(_, _, _)
\* the group opened by gw[i] (if it found a match) ahead of the later ones
GpsMatch(gw, i, processed, m) ==
    (IF m /= {} THEN <<Pick(gw, {i} \cup m, 1)>> ELSE <<>>)
    \o GpsFrom(gw, i + 1, processed \cup {i} \cup m)

GpsFrom(gw, i, processed) ==
    IF i > Len(gw) THEN <<>>
    ELSE IF i \in processed THEN GpsFrom(gw, i + 1, processed)
    ELSE GpsMatch(gw, i, processed,
                  {j \in Later(gw, i, processed) : AreGpsSimilar(gw[i], gw[j])})

\* _group_by_gps_similarity: only workouts with GPS and a route hash take part
GroupByGpsSimilarity(workouts) ==
    LET Routed(w) == w.has_gps /\ StrTruthy(w.route_hash)
    IN GpsFrom(SelectSeq(workouts, Routed), 1, {})

\* sorted(workouts, key=...): stable insertion sort on the key
RECURSIVE InsertByKey(_, _, _)
InsertByKey(sorted, w, k) ==
    IF sorted = <<>> THEN <<[w |-> w, k |-> k]>>
    ELSE IF Head(sorted).k <= k THEN <<Head(sorted)>> \o InsertByKey(Tail(sorted), w, k)
    ELSE <<[w |-> w, k |-> k]>> \o sorted

RECURSIVE SortedByPrecedence(_, _)
SortedByPrecedence(workouts, acc) ==
    IF workouts = <<>> THEN [i \in 1..Len(acc) |-> acc[i].w]
    ELSE SortedByPrecedence(Tail(workouts),
             InsertByKey(acc, Head(workouts),
                         GetSourcePrecedence(Head(workouts).source)))

\* dict.update over the group in order: a later value replaces an earlier one
RECURSIVE UpdateAll(_, _, _)
UpdateAll(acc, workouts, field) ==
    IF workouts = <<>> THEN acc
    ELSE LET d == Head(workouts)[field]
         IN UpdateAll([k \in DOMAIN acc \cup DOMAIN d |->
                          IF k \in DOMAIN d THEN d[k] ELSE acc[k]],
                      Tail(workouts), field)

\* the values of a numeric field that are not None, in group order
RECURSIVE ValuesOf(_, _)
ValuesOf(workouts, field) ==
    IF workouts = <<>> THEN <<>>
    ELSE (IF Head(workouts)[field] /= None THEN <<Head(workouts)[field]>> ELSE <<>>)
         \o ValuesOf(Tail(workouts), field)

MaxFields ==
    {"distance", "calories", "elevation_gain", "power_avg", "cadence_avg",
     "training_load", "heart_rate_max"}

\* the merge rule of one numeric field; the mean of the heart-rate averages
\* is taken over inputs whose mean is a whole number
NumericOf(values, field) ==
    IF values = <<>> THEN None
    ELSE IF field \in MaxFields THEN SeqMax(values)
    ELSE IF field = "heart_rate_avg" THEN SeqSum(values) \div Len(values)
    ELSE values[1]

MergedNumeric(workouts, field) == NumericOf(ValuesOf(workouts, field), field)

RECURSIVE FirstWithGps(_)
FirstWithGps(workouts) ==
    IF workouts = <<>> THEN <<>>
    ELSE IF Head(workouts).has_gps THEN <<Head(workouts)>>
    ELSE FirstWithGps(Tail(workouts))

\* _merge_workout_data, workouts in precedence order; gps is the first
\* workout of the group that has GPS, if any
MergeData(workouts, gps) ==
       [external_ids |-> UpdateAll(EmptyDict, workouts, "external_ids"),
        raw_data |-> UpdateAll(EmptyDict, workouts, "raw_data"),
        plugin_data |-> UpdateAll(EmptyDict, workouts, "plugin_data"),
        distance |-> MergedNumeric(workouts, "distance"),
        calories |-> MergedNumeric(workouts, "calories"),
        heart_rate_avg |-> MergedNumeric(workouts, "heart_rate_avg"),
        heart_rate_max |-> MergedNumeric(workouts, "heart_rate_max"),
        elevation_gain |-> MergedNumeric(workouts, "elevation_gain"),
        power_avg |-> MergedNumeric(workouts, "power_avg"),
        cadence_avg |-> MergedNumeric(workouts, "cadence_avg"),
        training_load |-> MergedNumeric(workouts, "training_load"),
        perceived_exertion |-> MergedNumeric(workouts, "perceived_exertion"),
        has_gps |-> gps /= <<>>,
        route_hash |-> IF gps /= <<>> THEN gps[1].route_hash ELSE "None",
        gps_data |-> IF gps /= <<>> THEN gps[1].gps_data ELSE NoGpsData,
        data_quality_score |->
            IF workouts = <<>> THEN 100
            ELSE SeqMax([i \in 1..Len(workouts) |-> workouts[i].data_quality_score])]

MergeWorkoutData(workouts) == MergeData(workouts, FirstWithGps(workouts))

\* _merge_workout_group: the result is val = <<>> for None, <<w>> for a workout.
\* A group of two or more is sorted on w.source and rebuilt with
\* Workout(..., source=primary.source, ...): the Workout class declares
\* data_source and no source, so the read raises AttributeError (and the
\* constructor would raise ValidationError for the missing data_source).
\* Workout(...) built from the primary workout and the merged data
MergedWorkout(primary, merged_data) ==
    NewWorkout(
                 [workout_id |-> primary.workout_id,
                  start_time |-> primary.start_time,
                  end_time |-> primary.end_time,
                  duration |-> primary.duration,
                  sport |-> primary.sport,
                  sport_category |-> primary.sport_category,
                  distance |-> merged_data.distance,
                  calories |-> merged_data.calories,
                  heart_rate_avg |-> merged_data.heart_rate_avg,
                  heart_rate_max |-> merged_data.heart_rate_max,
                  elevation_gain |-> merged_data.elevation_gain,
                  power_avg |-> merged_data.power_avg,
                  cadence_avg |-> merged_data.cadence_avg,
                  training_load |-> merged_data.training_load,
                  perceived_exertion |-> merged_data.perceived_exertion,
                  has_gps |-> merged_data.has_gps,
                  route_hash |-> merged_data.route_hash,
                  gps_data |-> merged_data.gps_data,
                  source |-> primary.source,
                  external_ids |-> merged_data.external_ids,
                  raw_data |-> merged_data.raw_data,
                  data_quality_score |-> merged_data.data_quality_score,
                  ml_features_extracted |-> FALSE,
                  plugin_data |-> merged_data.plugin_data])

\* the constructed object as an optional value, or the exception it raised
Made(made) ==
    IF made.exc /= NoExc THEN [exc |-> made.exc, val |-> <<>>]
    ELSE [exc |-> NoExc, val |-> <<made.val>>]

MergeSorted(sorted_workouts) ==
    Made(MergedWorkout(sorted_workouts[1], MergeWorkoutData(sorted_workouts)))

MergeWorkoutGroup(workouts) ==
    IF workouts = <<>> THEN [exc |-> NoExc, val |-> <<>>]
    ELSE IF Len(workouts) = 1 THEN [exc |-> NoExc, val |-> <<workouts[1]>>]
    ELSE IF \E i \in 1..Len(workouts) : ~HasAttr(workouts[i], "source")
         THEN [exc |-> "AttributeError", val |-> <<>>]
    ELSE MergeSorted(SortedByPrecedence(workouts, <<>>))

\* one of the three loops of _merge_workout_groups; the temporal and GPS
\* loops skip a group none of whose members is still in merged_workouts
RECURSIVE ProcessGroups(_, _, _)
\* the body of the loop once the group is merged into m
MergeInto(merged_workouts, groups, skipProcessed, m) ==
    IF m.exc /= NoExc THEN [exc |-> m.exc, val |-> <<>>]
    ELSE IF m.val = <<>>
         THEN ProcessGroups(merged_workouts, Tail(groups), skipProcessed)
    ELSE ProcessGroups(Append(RemoveAll(merged_workouts, Head(groups)), m.val[1]),
                       Tail(groups), skipProcessed)

ProcessGroups(merged_workouts, groups, skipProcessed) ==
    IF groups = <<>> THEN [exc |-> NoExc, val |-> merged_workouts]
    ELSE IF skipProcessed
            /\ ~(\E i \in 1..Len(Head(groups)) :
                    InList(Head(groups)[i], merged_workouts))
         THEN ProcessGroups(merged_workouts, Tail(groups), skipProcessed)
    ELSE MergeInto(merged_workouts, groups, skipProcessed,
                   MergeWorkoutGroup(Head(groups)))

\* _merge_workout_groups
ThenProcess(prev, groups) ==
    IF prev.exc /= NoExc THEN prev ELSE ProcessGroups(prev.val, groups, TRUE)

MergeWorkoutGroups(all_workouts, id_groups, temporal_groups, gps_groups) ==
    ThenProcess(ThenProcess(ProcessGroups(all_workouts, id_groups, FALSE),
                            temporal_groups),
                gps_groups)

\* deduplicate_workouts
DeduplicateGrouped(workouts, temporal) ==
    IF temporal.exc /= NoExc THEN [exc |-> temporal.exc, val |-> <<>>]
    ELSE MergeWorkoutGroups(workouts, GroupByExternalIds(workouts), temporal.groups,
                            GroupByGpsSimilarity(workouts))

DeduplicateWorkouts(workouts) ==
    IF workouts = <<>> THEN [exc |-> NoExc, val |-> <<>>]
    ELSE DeduplicateGrouped(workouts, GroupByTemporalSimilarity(workouts))

\* the (date, metric_type, source) keys of the readings, in first-seen order
RECURSIVE BiometricKeys(_, _)
BiometricKeys(readings, acc) ==
    IF readings = <<>> THEN acc
    ELSE LET r == Head(readings)
             key == <<r.date, r.metric_type, r.source>>
         IN BiometricKeys(Tail(readings),
                          IF InList(key, acc) THEN acc ELSE Append(acc, key))

RECURSIVE InsertByConfidence(_, _)
InsertByConfidence(sorted, r) ==
    IF sorted = <<>> THEN <<r>>
    ELSE IF Head(sorted).confidence >= r.confidence
         THEN <<Head(sorted)>> \o InsertByConfidence(Tail(sorted), r)
    ELSE <<r>> \o sorted

RECURSIVE SortedByConfidence(_, _)
SortedByConfidence(readings, acc) ==
    IF readings = <<>> THEN acc
    ELSE SortedByConfidence(Tail(readings), InsertByConfidence(acc, Head(readings)))

\* _merge_biometric_group: value and confidence are rationals <<num, den>>
\* (confidence in hundredths); the weighted mean divides by the summed
\* confidence
MergedReading(readings, primary, total_weight, weighted) ==
    IF total_weight = 0 THEN [exc |-> "ZeroDivisionError", val |-> <<>>]
    ELSE Made(NewBiometric(
                  [date |-> primary.date,
                   metric_type |-> primary.metric_type,
                   value |-> <<weighted, total_weight>>,
                   unit |-> primary.unit,
                   source |-> primary.source,
                   confidence |->
                       IF total_weight >= 100 * Len(readings)
                       THEN <<100, 1>>
                       ELSE <<total_weight, Len(readings)>>,
                   external_id |-> primary.external_id]))

MergeBiometricGroup(readings) ==
    IF Len(readings) = 1 THEN [exc |-> NoExc, val |-> <<readings[1]>>]
    ELSE MergedReading(
             readings, SortedByConfidence(readings, <<>>)[1],
             SeqSum([i \in 1..Len(readings) |-> readings[i].confidence]),
             SeqSum([i \in 1..Len(readings) |->
                        readings[i].value * readings[i].confidence]))

\* the merged reading m ahead of those of the later keys
ConsMerged(m, rest) ==
    IF rest.exc /= NoExc THEN rest ELSE [exc |-> NoExc, val |-> m.val \o rest.val]

RECURSIVE MergeBiometricKeys(_, _)
MergeKey(readings, keys, m) ==
    IF m.exc /= NoExc THEN m
    ELSE ConsMerged(m, MergeBiometricKeys(readings, Tail(keys)))

MergeBiometricKeys(readings, keys) ==
    IF keys = <<>> THEN [exc |-> NoExc, val |-> <<>>]
    ELSE LET SameKey(r) == <<r.date, r.metric_type, r.source>> = Head(keys)
         IN MergeKey(readings, keys, MergeBiometricGroup(SelectSeq(readings, SameKey)))

\* deduplicate_biometrics: the grouping key reads reading.date and
\* reading.source; BiometricReading declares date_value and data_source, so
\* the first reading raises AttributeError
DeduplicateBiometrics(readings) ==
    IF readings = <<>> THEN [exc |-> NoExc, val |-> <<>>]
    ELSE IF ~HasAttr(readings[1], "date") \/ ~HasAttr(readings[1], "source")
         THEN [exc |-> "AttributeError", val |-> <<>>]
    ELSE MergeBiometricKeys(readings, BiometricKeys(readings, <<>>))

\* get_deduplication_stats (the counts; the two ratios derive from them)
GetDeduplicationStats(original_count, final_count) ==
    [original_count |-> original_count,
     final_count |-> final_count,
     duplicates_removed |-> original_count - final_count]

(***************************************************************************)
(* State.                                                                  *)
(***************************************************************************)
VARIABLES
    dIn,        \* the list handed to the deduplication engine
    dOp,        \* the engine operation that was applied to it
    dOut,       \* what the operation returned or raised
    bIn,        \* the list of readings handed to the engine
    last_request_time,  \* connector field: "zero", "just_now" or "earlier"
    rPc,        \* where make_request stands
    attempt,    \* its loop variable
    rLog,       \* what it did so far: sleeps and invocations of request_func
    rRaised,    \* the error it raised to its caller, if any
    rCallNo,    \* how many make_request calls were started
    cIn,        \* the arguments of the calorie calculation
    cOp,        \* the calculator operation that was applied
    cResult,    \* the CalorieCalculationResult it returned, or what it raised
    athlete_profiles,       \* table athlete_profiles: the athlete ids with a row
    athlete_profiles_cache, \* MultiAthleteCalorieCalculator.athlete_profiles_cache
    calibration_cache,      \* MultiAthleteCalorieCalculator.calibration_cache
    athlete_calorie_calibration, \* table: (athlete, sport) -> factor, sample_count
    cN,         \* how many calculator operations ran
    upstream,       \* what each source's service answers, the same in every cycle
    authenticated,  \* connector field, per source
    sync_count,     \* connector field, per source
    sPc,            \* where each source's sync task stands
    sWorkouts,      \* local `workouts` of each BaseConnector.sync_data call
    sResult,        \* what each sync task returned
    phase,          \* sync_all_sources: "idle" or "gathering"
    sync_summary,   \* what the last sync_all_sources call returned, <<>> if nothing
    sRaised,        \* the exception the last sync_all_sources call raised
    sync_status,    \* DataIngestionOrchestrator.sync_status
    db_workouts,    \* table workouts
    db_biometrics,  \* table biometrics
    db_sync_status, \* table sync_status
    cycle,          \* completed sync_all_sources calls
    sources_to_sync,    \* sync_all_sources: the names the call was asked to sync
    connectors,     \* DataIngestionOrchestrator.connectors: name -> connector
    data_sources,   \* table data_sources: the names with a row
    regIn,          \* the arguments of the last register_connector call
    regOut,         \* what it returned
    regN            \* how many register_connector calls were made

dedupVars == <<dIn, dOp, dOut, bIn>>
reqVars == <<last_request_time, rPc, attempt, rLog, rRaised, rCallNo>>
calVars == <<cIn, cOp, cResult, athlete_profiles, athlete_profiles_cache,
             calibration_cache, athlete_calorie_calibration, cN>>
syncVars == <<upstream, authenticated, sync_count, sPc, sWorkouts, sResult, phase,
              sync_summary, sRaised, sync_status, db_workouts, db_biometrics,
              db_sync_status, cycle, sources_to_sync>>
regVars == <<connectors, data_sources, regIn, regOut, regN>>
vars == <<dedupVars, reqVars, calVars, syncVars, regVars>>
notDedup == <<reqVars, calVars, syncVars, regVars>>
notReq == <<dedupVars, calVars, syncVars, regVars>>
notCal == <<dedupVars, reqVars, syncVars, regVars>>
notSync == <<dedupVars, reqVars, calVars, regVars>>
\* what register_connector leaves alone: all but the registry and sync_status
notReg == <<dedupVars, reqVars, calVars, upstream, authenticated, sync_count, sPc,
            sWorkouts, sResult, phase, sync_summary, sRaised, db_workouts,
            db_biometrics, db_sync_status, cycle, sources_to_sync>>

NoCalorieResult == [exc |-> NoExc, calories |-> 0, method |-> "", confidence |-> 0]

\* the calculator with nothing asked of it and empty tables
CalIdle ==
    /\ cIn = <<>>
    /\ cOp = "none"
    /\ cResult = NoCalorieResult
    /\ athlete_profiles = {}
    /\ athlete_profiles_cache = EmptyDict
    /\ calibration_cache = EmptyDict
    /\ athlete_calorie_calibration = EmptyDict
    /\ cN = 0

\* the orchestrator without connectors, on an empty database
SyncIdle ==
    /\ upstream = EmptyDict
    /\ authenticated = EmptyDict
    /\ sync_count = EmptyDict
    /\ sPc = EmptyDict
    /\ sWorkouts = EmptyDict
    /\ sResult = EmptyDict
    /\ phase = "idle"
    /\ sync_summary = <<>>
    /\ sRaised = NoExc
    /\ sync_status = EmptyDict
    /\ db_workouts = {}
    /\ db_biometrics = {}
    /\ db_sync_status = EmptyDict
    /\ cycle = 0
    /\ sources_to_sync = <<>>
    /\ connectors = EmptyDict
    /\ data_sources = {}
    /\ regIn = <<>>
    /\ regOut = FALSE
    /\ regN = 0

\* the connector as constructed, no request made
ReqIdle ==
    /\ last_request_time = "zero"
    /\ rPc = "idle"
    /\ attempt = 0
    /\ rLog = <<>>
    /\ rRaised = [kind |-> NoExc, origin |-> 0]
    /\ rCallNo = 0

\* the deduplication engine with nothing handed to it
DedupIdle ==
    /\ dIn = <<>>
    /\ dOp = "none"
    /\ dOut = [exc |-> NoExc, val |-> <<>>]
    /\ bIn = <<>>

(***************************************************************************)
(* The deduplication engine on its own: a list of workouts is drawn and    *)
(* one operation of the engine is applied to it.                           *)
(***************************************************************************)
MkWorkout(id, src, start, dur, sport, cat, cal, ext) ==
    NewWorkout([workout_id |-> id, start_time |-> start, end_time |-> start + dur,
                duration |-> dur, sport |-> sport, sport_category |-> cat,
                calories |-> cal, data_source |-> src, external_ids |-> ext]).val

WithGps(w, hash, coords) ==
    [w EXCEPT !.has_gps = TRUE, !.route_hash = hash,
              !.gps_data = [keys |-> {"coordinates"}, coordinates |-> coords]]

\* the 42-minute run of 08:00:00 reported by garmin, without GPS
RunGarmin ==
    MkWorkout("g1", "garmin", 0, 2520, "Run", "endurance", 420, [garmin |-> "g1"])
\* the same run reported by strava 20 s later, 43 minutes, with a route
RunStrava ==
    WithGps(MkWorkout("s1", "strava", 20, 2580, "Run", "endurance", 0,
                      [strava |-> "s1"]),
            "r1", << <<0, 0>>, <<100, 0>> >>)
\* a source outside PRECEDENCE that carries the strava id of the same run
RunPolar ==
    MkWorkout("p1", "polar", 0, 2520, "Run", "endurance", 500,
              [polar |-> "p1", strava |-> "s1"])
\* a record of another day that carries both external ids of RunPolar
RunWhoop ==
    MkWorkout("w1", "whoop", 90000, 1200, "Run", "endurance", 200,
              [polar |-> "p1", strava |-> "s1"])
\* rides with raw coordinates and no route hash
RideStrava ==
    WithGps(MkWorkout("s2", "strava", 4000, 1800, "Ride", "other", 300,
                      [strava |-> "s2"]),
            "None", << <<3, 4>> >>)
RideGarmin ==
    WithGps(MkWorkout("g2", "garmin", 9000, 600, "Ride", "other", None,
                      [garmin |-> "g2"]),
            "None", << <<0, 0>>, <<100, 0>> >>)
\* zero-duration records, one with a malformed coordinate
ZeroFitbit ==
    WithGps(MkWorkout("f1", "fitbit", 20000, 0, "Yoga", "other", None, EmptyDict),
            "None", << <<0>> >>)
ZeroGarmin ==
    MkWorkout("g3", "garmin", 20010, 0, "Yoga", "other", None, EmptyDict)
\* a later run over the route of RunStrava
RouteStrava ==
    WithGps(MkWorkout("s3", "strava", 50000, 2400, "Run", "endurance", 380,
                      [strava |-> "s3"]),
            "r1", << <<0, 0>>, <<100, 7>> >>)

DedupPool ==
    {RunGarmin, RunStrava, RunPolar, RunWhoop, RideStrava, RideGarmin, ZeroFitbit,
     ZeroGarmin, RouteStrava}

NoOut == [exc |-> NoExc, val |-> <<>>]

\* readings of one (date, metric, source) key with confidences 1.0, 0.5 and
\* 0, and a reading of another metric
WeightGarmin ==
    NewBiometric([date_value |-> 1, metric_type |-> "weight", value |-> 70,
                  unit |-> "kg", data_source |-> "garmin"]).val
WeightGarminAgain ==
    NewBiometric([date_value |-> 1, metric_type |-> "weight", value |-> 71,
                  unit |-> "kg", data_source |-> "garmin", confidence |-> 50]).val
RestingHrGarmin ==
    NewBiometric([date_value |-> 1, metric_type |-> "resting_hr", value |-> 50,
                  unit |-> "bpm", data_source |-> "garmin"]).val
WeightGarminUnsure ==
    NewBiometric([date_value |-> 1, metric_type |-> "weight", value |-> 72,
                  unit |-> "kg", data_source |-> "garmin", confidence |-> 0]).val
WeightGarminUnsureAgain ==
    NewBiometric([date_value |-> 1, metric_type |-> "weight", value |-> 74,
                  unit |-> "kg", data_source |-> "garmin", confidence |-> 0]).val

ReadingPool ==
    {WeightGarmin, WeightGarminAgain, RestingHrGarmin, WeightGarminUnsure,
     WeightGarminUnsureAgain}

\* the engine is handed a list of workouts or a list of readings
DedupInit ==
    /\ \/ /\ dIn \in {s \in SeqsUpTo(DedupPool, MaxGroup) : s /= <<>> /\ NoRepeat(s)}
          /\ bIn = <<>>
       \/ /\ dIn = <<>>
          /\ bIn \in {s \in SeqsUpTo(ReadingPool, MaxReadings) :
                         s /= <<>> /\ NoRepeat(s)}
    /\ dOp = "none"
    /\ dOut = NoOut
    /\ ReqIdle
    /\ CalIdle
    /\ SyncIdle

\* deduplicate_workouts(dIn)
DoDeduplicate ==
    /\ dOp = "none"
    /\ dOp' = "deduplicate_workouts"
    /\ dOut' = DeduplicateWorkouts(dIn)
    /\ UNCHANGED <<dIn, bIn, notDedup>>

\* _merge_workout_group(dIn)
DoMergeGroup ==
    /\ dOp = "none"
    /\ dOp' = "merge_workout_group"
    /\ dOut' = MergeWorkoutGroup(dIn)
    /\ UNCHANGED <<dIn, bIn, notDedup>>

\* deduplicate_biometrics(bIn)
DoDeduplicateBiometrics ==
    /\ dOp = "none"
    /\ dOp' = "deduplicate_biometrics"
    /\ dOut' = DeduplicateBiometrics(bIn)
    /\ UNCHANGED <<dIn, bIn, notDedup>>

\* _merge_workout_data(dIn)
DoMergeData ==
    /\ dOp = "none"
    /\ dOp' = "merge_workout_data"
    /\ dOut' = [exc |-> NoExc, val |-> <<MergeWorkoutData(dIn)>>]
    /\ UNCHANGED <<dIn, bIn, notDedup>>

\* _are_gps_similar on the first two workouts, in both argument orders
DoGpsCompare ==
    /\ dOp = "none"
    /\ Len(dIn) >= 2
    /\ dOp' = "are_gps_similar"
    /\ dOut' = [exc |-> NoExc,
                val |-> <<AreGpsSimilar(dIn[1], dIn[2]), AreGpsSimilar(dIn[2], dIn[1])>>]
    /\ UNCHANGED <<dIn, bIn, notDedup>>

\* the list in the order p
Permuted(workouts, p) == [i \in 1..Len(workouts) |-> workouts[p[i]]]

\* deduplicate_workouts on dIn and on a permutation of dIn
DoDeduplicatePermuted ==
    /\ dOp = "none"
    /\ Len(dIn) >= 2
    /\ dOp' = "deduplicate_permuted"
    /\ \E p \in Permutations(1..Len(dIn)) :
          dOut' = [exc |-> NoExc,
                   val |-> <<DeduplicateWorkouts(dIn),
                             DeduplicateWorkouts(Permuted(dIn, p))>>]
    /\ UNCHANGED <<dIn, bIn, notDedup>>

DedupNext ==
    \/ DoDeduplicate
    \/ DoMergeGroup
    \/ DoMergeData
    \/ DoDeduplicateBiometrics
    \/ DoGpsCompare
    \/ DoDeduplicatePermuted

SpecDedup == DedupInit /\ [][DedupNext]_vars

(***************************************************************************)
(* BaseConnector.make_request, one step per await.  The request function   *)
(* is the environment: each invocation returns or raises one of Outcomes.  *)
(***************************************************************************)
max_retries == 3
base_delay == 1
min_request_interval == 1    \* self.min_request_interval, in tenths of a second

RetryAfters == {0, 2}

Outcomes ==
    {[kind |-> k, retry_after |-> 0] :
        k \in {"ok", "ok_headers_raise", "APIError", "AuthenticationError",
               "ConnectorError", "Exception"}}
    \cup {[kind |-> "RateLimitError", retry_after |-> ra] : ra \in RetryAfters}

\* the except clause of make_request that handles an exception of this kind
ExceptClauseNoReraise(kind) ==
    IF kind = "RateLimitError" THEN "rate_limit" ELSE "other"

ExceptClause(kind) ==
    IF kind = "RateLimitError" THEN "rate_limit"
    ELSE IF kind \in {"APIError", "AuthenticationError"} THEN "reraise"
    ELSE "other"

\* sleeps are logged with the bounds of their duration in tenths of a second
SleepEntry(why, lo, hi) == [ev |-> "sleep", why |-> why, lo |-> lo, hi |-> hi]
CallEntry(o) ==
    [ev |-> "call", outcome |-> o.kind, retry_after |-> o.retry_after,
     attempt |-> attempt]

RECURSIVE Pow2(_)
Pow2(n) == IF n = 0 THEN 1 ELSE 2 * Pow2(n - 1)

\* a caller starts make_request; the time since the last successful request
\* is arbitrary
ReqStart ==
    /\ rPc \in {"idle", "returned", "raised"}
    /\ rCallNo < MaxCalls
    /\ rCallNo' = rCallNo + 1
    /\ rPc' = "attempt"
    /\ attempt' = 0
    /\ rLog' = <<>>
    /\ rRaised' = [kind |-> NoExc, origin |-> 0]
    /\ \E later \in BOOLEAN :
          last_request_time' =
              IF later /\ last_request_time = "just_now" THEN "earlier"
              ELSE last_request_time
    /\ UNCHANGED notReq

\* time_since_last < min_request_interval: sleep for the remainder
ReqSpacing ==
    /\ rPc = "attempt"
    /\ last_request_time = "just_now"
    /\ rLog' = Append(rLog, SleepEntry("min_request_interval", 0, min_request_interval))
    /\ last_request_time' = "earlier"
    /\ UNCHANGED <<rPc, attempt, rRaised, rCallNo, notReq>>

\* what follows an exception of request_func (or of the header update) in the
\* same step: the re-raise, the wrapped APIError of the last attempt, or the
\* move to the sleep
ReqExcept(o, lrt) ==
    LET clause == ExceptClause(o.kind)
        origin == Len(rLog) + 1
    IN /\ last_request_time' = lrt
       /\ IF clause = "reraise" \/ (clause = "rate_limit" /\ ~(attempt < max_retries - 1))
          THEN /\ rPc' = "raised"
               /\ rRaised' = [kind |-> o.kind, origin |-> origin]
          ELSE IF clause = "other" /\ ~(attempt < max_retries - 1)
          THEN /\ rPc' = "raised"
               /\ rRaised' = [kind |-> "APIError", origin |-> 0]
          ELSE /\ rPc' = IF clause = "rate_limit" THEN "handle_rate_limit" ELSE "backoff"
               /\ rRaised' = rRaised

\* result = await request_func(...)
ReqInvoke ==
    /\ rPc = "attempt"
    /\ last_request_time /= "just_now"
    /\ \E o \in Outcomes :
          /\ rLog' = Append(rLog, CallEntry(o))
          /\ IF o.kind = "ok"
             THEN /\ last_request_time' = "just_now"
                  /\ rPc' = "returned"
                  /\ rRaised' = rRaised
             ELSE IF o.kind = "ok_headers_raise"
             THEN ReqExcept([kind |-> "Exception", retry_after |-> 0], "just_now")
             ELSE ReqExcept(o, last_request_time)
    /\ UNCHANGED <<attempt, rCallNo, notReq>>

\* a wait of retry_after without the jitter
RateLimitWaitNoJitter(retry_after) ==
    SleepEntry("rate_limit", 10 * retry_after, 10 * retry_after)

\* handle_rate_limit: retry_after plus a jitter of 10 to 30 per cent of it
RateLimitWait(retry_after) ==
    SleepEntry("rate_limit", 11 * retry_after, 13 * retry_after)

\* await self.handle_rate_limit(e.retry_after); continue
ReqRateLimitSleep ==
    /\ rPc = "handle_rate_limit"
    /\ LET ra == rLog[Len(rLog)].retry_after
       IN /\ rLog' = Append(rLog, RateLimitWait(ra))
          /\ last_request_time' =
                 IF ra > 0 /\ last_request_time = "just_now" THEN "earlier"
                 ELSE last_request_time
    /\ attempt' = attempt + 1
    /\ rPc' = "attempt"
    /\ UNCHANGED <<rRaised, rCallNo, notReq>>

\* await asyncio.sleep(base_delay * 2 ** attempt + uniform(0, 1)); continue
ReqBackoffSleep ==
    /\ rPc = "backoff"
    /\ rLog' = Append(rLog, SleepEntry("backoff", 10 * base_delay * Pow2(attempt),
                                       10 * base_delay * Pow2(attempt) + 10))
    /\ last_request_time' =
           IF last_request_time = "just_now" THEN "earlier" ELSE last_request_time
    /\ attempt' = attempt + 1
    /\ rPc' = "attempt"
    /\ UNCHANGED <<rRaised, rCallNo, notReq>>

ReqInit == DedupIdle /\ ReqIdle /\ CalIdle /\ SyncIdle

ReqNext == ReqStart \/ ReqSpacing \/ ReqInvoke \/ ReqRateLimitSleep \/ ReqBackoffSleep

SpecReq == ReqInit /\ [][ReqNext]_vars

(***************************************************************************)
(* Calorie estimation (core/calorie_calculator.py).  Floating-point        *)
(* quantities are exact rationals <<numerator, denominator>> in lowest     *)
(* terms with a positive denominator; an absent Optional[float] is <<>>.   *)
(***************************************************************************)
RECURSIVE Gcd(_, _)
Gcd(a, b) == IF b = 0 THEN a ELSE Gcd(b, a % b)

Rat(n, d) == <<n \div Max2(Gcd(Abs(n), d), 1), d \div Max2(Gcd(Abs(n), d), 1)>>
RatInt(n) == <<n, 1>>
RatMul(a, b) ==
    <<(a[1] \div Max2(Gcd(Abs(a[1]), b[2]), 1)) * (b[1] \div Max2(Gcd(Abs(b[1]), a[2]), 1)),
      (a[2] \div Max2(Gcd(Abs(b[1]), a[2]), 1)) * (b[2] \div Max2(Gcd(Abs(a[1]), b[2]), 1))>>
RatAdd(a, b) == Rat(a[1] * b[2] + b[1] * a[2], a[2] * b[2])
RatSub(a, b) == Rat(a[1] * b[2] - b[1] * a[2], a[2] * b[2])
RatLess(a, b) == a[1] * b[2] < b[1] * a[2]
RatLeq(a, b) == a[1] * b[2] <= b[1] * a[2]
RatMax(a, b) == IF RatLess(a, b) THEN b ELSE a
RatMin(a, b) == IF RatLess(b, a) THEN b ELSE a
RatAbs(a) == <<Abs(a[1]), a[2]>>
\* int(x): truncation toward zero
RatTrunc(a) == IF a[1] >= 0 THEN a[1] \div a[2] ELSE -((-a[1]) \div a[2])

\* truthiness of an Optional[int]
IntTruthy(x) == x /= None /\ x /= 0

\* UserProfile(**kwargs)
UserProfileFields ==
    {"user_id", "age", "gender", "weight_kg", "height_cm", "vo2max", "resting_hr",
     "max_hr", "activity_level"}

UserProfileDefaults ==
    [height_cm |-> None, vo2max |-> None, resting_hr |-> None, max_hr |-> None,
     activity_level |-> "moderate"]

NewUserProfile(kwargs) ==
    IF ~(UserProfileRequired \subseteq DOMAIN kwargs)
    THEN [exc |-> "ValidationError", val |-> kwargs]
    ELSE [exc |-> NoExc,
          val |-> [f \in UserProfileFields |->
                     IF f \in DOMAIN kwargs THEN kwargs[f] ELSE UserProfileDefaults[f]]]

\* UserProfile.calculated_max_hr: max_hr or int(208 - 0.7 * age)
CalculatedMaxHr(user) ==
    IF IntTruthy(user.max_hr) THEN user.max_hr
    ELSE RatTrunc(Rat(2080 - 7 * user.age, 10))

\* EnhancedCalorieCalculator.__init__: the default profile it constructs
DefaultUserKwargs ==
    [athlete_id |-> "default", age |-> 30, gender |-> "male", weight_kg |-> 65,
     height_cm |-> 175, activity_level |-> "moderate"]

CalculatorInit == NewUserProfile(DefaultUserKwargs)

\* get_actual_weight_from_sources: raw_data["athlete"] stands for
\* raw_data['athlete']['weight']; the database lookup reads a table
\* biometric_readings that the schema does not create, and so finds nothing
GetActualWeightFromSources(workout) ==
    IF "athlete" \in DOMAIN workout.raw_data /\ workout.raw_data["athlete"] > 0
    THEN workout.raw_data["athlete"]
    ELSE IF "weight" \in DOMAIN workout.raw_data /\ workout.raw_data["weight"] > 0
    THEN workout.raw_data["weight"]
    ELSE None

\* user_profile.copy(update={'weight_kg': actual_weight}) when a weight is found
WithActualWeight(user_profile, actual_weight) ==
    IF IntTruthy(actual_weight) THEN [user_profile EXCEPT !.weight_kg = actual_weight]
    ELSE user_profile

\* _calculate_from_heart_rate_keytel, coefficients in ten-thousandths
KeytelNumerator(hr_avg, user) ==
    IF user.gender = "male"
    THEN IF IntTruthy(user.vo2max)
         THEN -957735 + 6340 * hr_avg + 4040 * user.vo2max + 3940 * user.weight_kg
              + 2710 * user.age
         ELSE -550969 + 6309 * hr_avg + 1988 * user.weight_kg + 2017 * user.age
    ELSE IF IntTruthy(user.vo2max)
         THEN -593954 + 4500 * hr_avg + 3800 * user.vo2max + 1030 * user.weight_kg
              + 2740 * user.age
         ELSE -204022 + 4472 * hr_avg + 1263 * user.weight_kg + 740 * user.age

CalculateFromHeartRateKeytel(workout, user) ==
    RatMax(RatInt(1),
           RatMul(Rat(KeytelNumerator(workout.heart_rate_avg, user), 41840),
                  Rat(workout.duration, 60)))

\* MET_VALUES and _get_base_met, in tenths: 'moderate', else 'easy', else 4.0
BaseMetTenths ==
    [Run |-> 80, Ride |-> 60, Swim |-> 60, Walk |-> 35, Hike |-> 45, Soccer |-> 40,
     Basketball |-> 40, Tennis |-> 40, Volleyball |-> 40, WeightTraining |-> 40,
     StrengthTraining |-> 40, Crossfit |-> 80, Yoga |-> 25, Pilates |-> 40,
     Rowing |-> 60, Elliptical |-> 50, default |-> 40]

GetBaseMet(sport) ==
    IF sport \in DOMAIN BaseMetTenths THEN Rat(BaseMetTenths[sport], 10)
    ELSE Rat(BaseMetTenths["default"], 10)

\* base_met * weight_kg * duration_hours
MetCalories(met, user, seconds) ==
    RatMul(RatMul(met, RatInt(user.weight_kg)), Rat(seconds, 3600))

\* _get_intensity_factor
HrPercent(hr_avg, hr_rest, hr_max) ==
    IF RatLess(RatInt(hr_rest), hr_max)
    THEN RatMul(RatInt(hr_avg - hr_rest),
                <<RatSub(hr_max, RatInt(hr_rest))[2], RatSub(hr_max, RatInt(hr_rest))[1]>>)
    ELSE Rat(1, 2)

SportIntensity(sport, hr_percent) ==
    IF sport \in {"Soccer", "Basketball", "Tennis"}
    THEN IF RatLess(hr_percent, Rat(6, 10)) THEN Rat(8, 10)
         ELSE IF RatLess(hr_percent, Rat(7, 10)) THEN Rat(1, 1)
         ELSE IF RatLess(hr_percent, Rat(8, 10)) THEN Rat(11, 10)
         ELSE Rat(12, 10)
    ELSE IF sport \in {"WeightTraining", "StrengthTraining"} THEN Rat(7, 10)
    ELSE RatAdd(Rat(6, 10), RatMul(hr_percent, Rat(4, 10)))

GetIntensityFactor(workout, user) ==
    IF ~IntTruthy(workout.heart_rate_avg) \/ ~IntTruthy(user.resting_hr) THEN Rat(1, 1)
    ELSE SportIntensity(
             workout.sport,
             HrPercent(workout.heart_rate_avg, user.resting_hr,
                       IF IntTruthy(user.max_hr) THEN RatInt(user.max_hr)
                       ELSE Rat(10 * workout.heart_rate_avg
                                + 3 * (workout.heart_rate_avg - user.resting_hr), 10)))

\* _calculate_met_with_intensity: None without heart rate and resting heart
\* rate, and None when the heart-rate reserve is 0 (the division raises and
\* the function catches it)
CalculateMetWithIntensity(workout, user) ==
    IF ~(IntTruthy(workout.heart_rate_avg) /\ IntTruthy(user.resting_hr)) THEN <<>>
    ELSE IF CalculatedMaxHr(user) - user.resting_hr = 0 THEN <<>>
    ELSE RatMax(RatInt(1),
                MetCalories(RatMul(GetBaseMet(workout.sport),
                                   RatMin(GetIntensityFactor(workout, user), Rat(12, 10))),
                            user, workout.duration))

\* _estimate_work_ratio: raw_data["exercises"] stands for the total number of
\* sets of raw_data['exercises']; with duration 0 the division raises, the
\* function catches it and keeps the default
EstimateWorkRatio(workout) ==
    IF "exercises" \in DOMAIN workout.raw_data /\ workout.raw_data["exercises"] > 0
       /\ workout.duration /= 0
    THEN RatMax(Rat(2, 10),
                RatMin(Rat(7, 10),
                       RatMul(RatMax(RatInt(workout.duration
                                            - 90 * workout.raw_data["exercises"]),
                                     Rat(2 * workout.duration, 10)),
                              Rat(1, workout.duration))))
    ELSE Rat(4, 10)

\* _calculate_weight_training
CalculateWeightTraining(workout, user) ==
    RatMax(RatInt(1),
           RatMul(MetCalories(GetBaseMet(workout.sport), user, workout.duration),
                  EstimateWorkRatio(workout)))

\* _calculate_basic_met
CalculateBasicMet(workout, user) ==
    RatMax(RatInt(1), MetCalories(GetBaseMet(workout.sport), user, workout.duration))

\* _apply_environmental_factors; no environmental data is env = <<>>
TemperatureFactor(env) ==
    IF env.temperature_c = None THEN Rat(1, 1)
    ELSE IF env.temperature_c > 25 THEN Rat(105, 100)
    ELSE IF env.temperature_c < 5 THEN Rat(103, 100)
    ELSE Rat(1, 1)

HumidityFactor(env) ==
    IF env.humidity_percent /= None /\ env.humidity_percent > 70 THEN Rat(102, 100)
    ELSE Rat(1, 1)

ApplyEnvironmentalFactors(calories, env) ==
    IF env = <<>> THEN calories
    ELSE RatMul(RatMul(calories, TemperatureFactor(env)), HumidityFactor(env))

\* _apply_calorie_validation_caps: the per-sport and the absolute maximum of
\* calories per minute
max_calories_per_minute ==
    [Soccer |-> 12, Basketball |-> 12, Tennis |-> 10, Run |-> 15, Ride |-> 12,
     WeightTraining |-> 8, Walk |-> 6, Swim |-> 10, default |-> 10]
absolute_max_cpm == 25

MaxCpm(sport) ==
    IF sport \in DOMAIN max_calories_per_minute THEN max_calories_per_minute[sport]
    ELSE max_calories_per_minute["default"]

ApplyCalorieValidationCaps(calories, workout) ==
    RatMin(RatMin(calories,
                  RatMul(RatInt(MaxCpm(workout.sport)), Rat(workout.duration, 60))),
           RatMul(RatInt(absolute_max_cpm), Rat(workout.duration, 60)))

\* CalorieCalculationResult(...): confidence in hundredths, validated to lie in
\* [0, 1]; a ValidationError is caught by calculate_enhanced, which then
\* answers with method "error"
CalorieResult(calories, method, confidence) ==
    IF confidence < 0 \/ confidence > 100
    THEN [exc |-> NoExc, calories |-> 0, method |-> "error", confidence |-> 0]
    ELSE [exc |-> NoExc, calories |-> calories, method |-> method,
          confidence |-> confidence]

\* an estimate after the validation caps and int()
Estimated(calories, workout, method, confidence) ==
    CalorieResult(RatTrunc(ApplyCalorieValidationCaps(calories, workout)), method,
                  confidence)

HasKilojoules(workout) ==
    "kilojoules" \in DOMAIN workout.raw_data /\ workout.raw_data["kilojoules"] /= 0

\* methods 4 to 6 of calculate_enhanced; _calculate_basic_met answers
\* max(1, ...), always a truthy value, so the distance fallback and the
\* "failed" result that follow it in the code are never reached
FromMet(workout, user, with_intensity) ==
    IF IntTruthy(workout.duration) /\ workout.sport /= "" /\ with_intensity /= <<>>
    THEN Estimated(with_intensity, workout, "met_intensity_adjusted", 75)
    ELSE IF workout.sport \in {"WeightTraining", "StrengthTraining"}
    THEN Estimated(CalculateWeightTraining(workout, user), workout,
                   "weight_training_specialized", 70)
    ELSE Estimated(CalculateBasicMet(workout, user), workout, "basic_met", 60)

\* the cascade of calculate_enhanced for the profile with the actual weight
HighQualityAbove95(workout) == workout.data_quality_score > 95

\* workout.data_quality_score > 0.9
HighQuality(workout) == workout.data_quality_score > 90

Cascade(workout, user, env) ==
    IF IntTruthy(workout.calories) /\ HighQuality(workout)
    THEN CalorieResult(workout.calories, "direct_strava", workout.data_quality_score)
    ELSE IF HasKilojoules(workout)
    THEN CalorieResult(RatTrunc(Rat(workout.raw_data["kilojoules"] * 1000, 4184)),
                       "kilojoules_conversion", 85)
    ELSE IF IntTruthy(workout.heart_rate_avg) /\ workout.heart_rate_avg > 0
    THEN Estimated(ApplyEnvironmentalFactors(
                       CalculateFromHeartRateKeytel(workout, user), env),
                   workout, "heart_rate_keytel", 83)
    ELSE FromMet(workout, user, CalculateMetWithIntensity(workout, user))

\* calculate_enhanced(workout, user_profile, environmental_data)
CalculateEnhanced(workout, user_profile, env) ==
    Cascade(workout,
            WithActualWeight(user_profile, GetActualWeightFromSources(workout)),
            env)

(***************************************************************************)
(* calculate_enhanced on its own: a workout, a user profile and optional   *)
(* environmental data are drawn and the cascade is applied to them.        *)
(***************************************************************************)
CalSports == {"Run", "Soccer", "WeightTraining", "Kayak"}
CalDurations == {0, 600, 1800}
CalRawData ==
    {EmptyDict, [kilojoules |-> 4184], [kilojoules |-> 100, weight |-> 80],
     [exercises |-> 4]}

CalWorkout(sport, dur, cal, quality, hr, raw) ==
    [MkWorkout("w1", "garmin", 0, dur, sport, "other", cal, EmptyDict)
        EXCEPT !.data_quality_score = quality, !.heart_rate_avg = hr,
               !.raw_data = raw, !.distance = IF hr = None THEN 5000 ELSE None]

CalWorkouts ==
    {CalWorkout(sport, dur, cal, quality, hr, raw) :
        sport \in CalSports, dur \in CalDurations, cal \in {None, 500},
        quality \in {80, 95}, hr \in {None, 150}, raw \in CalRawData}

CalProfile(gender, vo2max, resting_hr) ==
    NewUserProfile([user_id |-> "u1", age |-> 30, gender |-> gender,
                    weight_kg |-> 70, vo2max |-> vo2max, resting_hr |-> resting_hr]).val

CalProfiles ==
    {CalProfile("male", None, None), CalProfile("male", 45, 60),
     CalProfile("female", None, 60)}

CalEnvs ==
    {<<>>, [temperature_c |-> 30, humidity_percent |-> 80],
     [temperature_c |-> 0, humidity_percent |-> None]}

CalInit ==
    /\ DedupIdle /\ ReqIdle /\ SyncIdle
    /\ cIn \in {[workout |-> w, user_profile |-> u, environmental_data |-> e] :
                   w \in CalWorkouts, u \in CalProfiles, e \in CalEnvs}
    /\ cOp = "none"
    /\ cResult = NoCalorieResult
    /\ athlete_profiles = {}
    /\ athlete_profiles_cache = EmptyDict
    /\ calibration_cache = EmptyDict
    /\ athlete_calorie_calibration = EmptyDict
    /\ cN = 0

\* EnhancedCalorieCalculator(database_path)
DoConstruct ==
    /\ cOp = "none"
    /\ cOp' = "__init__"
    /\ cResult' = [NoCalorieResult EXCEPT !.exc = CalculatorInit.exc]
    /\ cN' = cN + 1
    /\ UNCHANGED <<cIn, athlete_profiles, athlete_profiles_cache, calibration_cache,
                   athlete_calorie_calibration, notCal>>

\* calculate_enhanced(workout, user_profile, environmental_data)
DoCalculateEnhanced ==
    /\ cOp = "none"
    /\ cOp' = "calculate_enhanced"
    /\ cResult' = CalculateEnhanced(cIn.workout, cIn.user_profile,
                                    cIn.environmental_data)
    /\ cN' = cN + 1
    /\ UNCHANGED <<cIn, athlete_profiles, athlete_profiles_cache, calibration_cache,
                   athlete_calorie_calibration, notCal>>

CalNext == DoConstruct \/ DoCalculateEnhanced

SpecCal == CalInit /\ [][CalNext]_vars

(***************************************************************************)
(* MultiAthleteCalorieCalculator: calculate_for_athlete and the            *)
(* calibration table it maintains.                                         *)
(***************************************************************************)
\* d[key] = v in a dict
DictSet(d, key, v) == [k \in DOMAIN d \cup {key} |-> IF k = key THEN v ELSE d[k]]

\* an object built inside try/except: None when the constructor raised
CaughtNone(made) == IF made.exc /= NoExc THEN <<>> ELSE <<made.val>>

\* _load_athlete_profile: a row of athlete_profiles is turned into
\* UserProfile(athlete_id=..., ...); UserProfile declares user_id, so the
\* constructor raises and the handler answers None
LoadAthleteProfile(athlete_id) ==
    IF athlete_id \in athlete_profiles
    THEN CaughtNone(NewUserProfile(
             [athlete_id |-> athlete_id, age |-> 30, gender |-> "male",
              weight_kg |-> 70, height_cm |-> None, vo2max |-> None,
              resting_hr |-> None, max_hr |-> None, activity_level |-> "moderate"]))
    ELSE <<>>

\* _create_minimal_profile: the estimates from the workout history only replace
\* default values; the constructor is called outside any handler
CreateMinimalProfile(athlete_id) ==
    NewUserProfile([athlete_id |-> athlete_id, age |-> 35, gender |-> "male",
                    weight_kg |-> 70, activity_level |-> "moderate"])

\* _get_or_create_athlete_profile as [exc, val]; a new profile is cached
ProfileOrMinimal(athlete_id, loaded) ==
    IF loaded /= <<>> THEN [exc |-> NoExc, val |-> loaded[1]]
    ELSE CreateMinimalProfile(athlete_id)

GetOrCreateAthleteProfile(athlete_id) ==
    IF athlete_id \in DOMAIN athlete_profiles_cache
    THEN [exc |-> NoExc, val |-> athlete_profiles_cache[athlete_id]]
    ELSE ProfileOrMinimal(athlete_id, LoadAthleteProfile(athlete_id))

\* _get_calibration_factor: the cache, then the table, then 1.0
GetCalibrationFactor(cache, key) ==
    IF key \in DOMAIN cache THEN cache[key]
    ELSE IF key \in DOMAIN athlete_calorie_calibration
    THEN athlete_calorie_calibration[key].calibration_factor
    ELSE Rat(1, 1)

\* an upsert that overwrites the factor with the latest ratio
UpsertedLatest(table, key, ratio) ==
    IF key \in DOMAIN table
    THEN DictSet(table, key, [calibration_factor |-> ratio,
                              sample_count |-> table[key].sample_count + 1])
    ELSE DictSet(table, key, [calibration_factor |-> ratio, sample_count |-> 1])

\* the upsert of _update_calibration
Upserted(table, key, ratio) ==
    IF key \in DOMAIN table
    THEN DictSet(table, key,
             [calibration_factor |->
                  RatMul(RatAdd(RatMul(table[key].calibration_factor,
                                       RatInt(table[key].sample_count)),
                                ratio),
                         Rat(1, table[key].sample_count + 1)),
              sample_count |-> table[key].sample_count + 1])
    ELSE DictSet(table, key, [calibration_factor |-> ratio, sample_count |-> 1])

\* _update_calibration: the table and the cache afterwards
UpdateCalibration(table, cache, key, actual_calories, predicted_calories) ==
    IF predicted_calories <= 0 THEN [table |-> table, cache |-> cache]
    ELSE IF RatLess(Rat(actual_calories, predicted_calories), Rat(1, 2))
            \/ RatLess(Rat(2, 1), Rat(actual_calories, predicted_calories))
    THEN [table |-> table, cache |-> cache]
    ELSE [table |-> Upserted(table, key, Rat(actual_calories, predicted_calories)),
          cache |-> DictSet(cache, key, Rat(actual_calories, predicted_calories))]

\* result.calories = int(result.calories * calibration_factor)
Calibrated(result, factor) ==
    IF factor /= Rat(1, 1)
    THEN [result EXCEPT !.calories = RatTrunc(RatMul(RatInt(result.calories), factor))]
    ELSE result

\* the cache after _get_calibration_factor
CacheAfterGet(key) ==
    IF key \notin DOMAIN calibration_cache /\ key \in DOMAIN athlete_calorie_calibration
    THEN DictSet(calibration_cache, key,
                 athlete_calorie_calibration[key].calibration_factor)
    ELSE calibration_cache

\* calculate_for_athlete once the profile is there
CalibrateAndLearn(workout, key, result) ==
    /\ cResult' = result
    /\ IF IntTruthy(workout.calories) /\ result.method /= "direct_strava"
       THEN /\ athlete_calorie_calibration' =
                   UpdateCalibration(athlete_calorie_calibration, CacheAfterGet(key),
                                     key, workout.calories, result.calories).table
            /\ calibration_cache' =
                   UpdateCalibration(athlete_calorie_calibration, CacheAfterGet(key),
                                     key, workout.calories, result.calories).cache
       ELSE /\ athlete_calorie_calibration' = athlete_calorie_calibration
            /\ calibration_cache' = CacheAfterGet(key)

ForAthlete(workout, athlete_id, profile) ==
    IF profile.exc /= NoExc
    THEN /\ cResult' = [NoCalorieResult EXCEPT !.exc = profile.exc]
         /\ UNCHANGED <<athlete_profiles_cache, calibration_cache,
                        athlete_calorie_calibration>>
    ELSE /\ athlete_profiles_cache' =
                DictSet(athlete_profiles_cache, athlete_id, profile.val)
         /\ CalibrateAndLearn(
                workout, <<athlete_id, workout.sport>>,
                Calibrated(CalculateEnhanced(workout, profile.val, <<>>),
                           GetCalibrationFactor(calibration_cache,
                                                <<athlete_id, workout.sport>>)))

AthleteIds == {"default", "a1"}

\* workouts with and without device calories, below and above the
\* direct-method quality threshold
ForAthleteWorkouts ==
    {CalWorkout(sport, 600, cal, quality, None, EmptyDict) :
        sport \in {"Run", "Ride"}, cal \in {None, 140}, quality \in {80, 95}}

CalibInit ==
    /\ DedupIdle /\ ReqIdle /\ SyncIdle
    /\ cIn = <<>>
    /\ cOp = "none"
    /\ cResult = NoCalorieResult
    /\ athlete_profiles \in SUBSET {"a1"}
    /\ athlete_profiles_cache = EmptyDict
    /\ calibration_cache = EmptyDict
    /\ athlete_calorie_calibration = EmptyDict
    /\ cN = 0

\* calculate_for_athlete(workout, athlete_id)
DoCalculateForAthlete ==
    /\ cN < MaxCalib
    /\ \E w \in ForAthleteWorkouts, a \in AthleteIds :
          /\ cIn' = [workout |-> w, athlete_id |-> a]
          /\ ForAthlete(w, a, GetOrCreateAthleteProfile(a))
    /\ cOp' = "calculate_for_athlete"
    /\ cN' = cN + 1
    /\ UNCHANGED <<athlete_profiles, notCal>>

\* _update_calibration(athlete_id, sport, actual_calories, predicted_calories)
DoUpdateCalibration ==
    /\ cN < MaxCalib
    /\ \E a \in AthleteIds, sport \in {"Run"}, actual \in {140, 100},
          predicted \in {0, 50, 100, 280} :
          /\ cIn' = [athlete_id |-> a, sport |-> sport, actual_calories |-> actual,
                     predicted_calories |-> predicted]
          /\ athlete_calorie_calibration' =
                 UpdateCalibration(athlete_calorie_calibration, calibration_cache,
                                   <<a, sport>>, actual, predicted).table
          /\ calibration_cache' =
                 UpdateCalibration(athlete_calorie_calibration, calibration_cache,
                                   <<a, sport>>, actual, predicted).cache
    /\ cOp' = "update_calibration"
    /\ cResult' = NoCalorieResult
    /\ cN' = cN + 1
    /\ UNCHANGED <<athlete_profiles, athlete_profiles_cache, notCal>>

CalibNext == DoCalculateForAthlete \/ DoUpdateCalibration

SpecCalib == CalibInit /\ [][CalibNext]_vars

(***************************************************************************)
(* Connectors (connectors/base.py, connectors/strava.py).  The sources of  *)
(* the model are "garmin", a connector that inherits                       *)
(* BaseConnector.sync_data and whose authenticate, fetch_workouts and      *)
(* fetch_biometrics answer what its service answers, and "strava", the     *)
(* StravaConnector.  An error message is a tuple of its parts, <<>> when   *)
(* there is none.                                                          *)
(***************************************************************************)
Sources == <<"garmin", "strava">>
BaseSources == {"garmin"}

\* dict.get(key, default)
Get(d, key, default) == IF key \in DOMAIN d THEN d[key] ELSE default

\* str.lower() on the activity types of the model
Lower(t) ==
    CASE t = "Run" -> "run"
      [] t = "Ride" -> "ride"
      [] t = "WeightTraining" -> "weighttraining"
      [] OTHER -> t

SportCategory(sport_type) ==
    IF sport_type \in {"run", "walk", "hike"} THEN "endurance"
    ELSE IF sport_type \in {"weighttraining", "strengthtraining"} THEN "strength"
    ELSE IF sport_type \in {"soccer", "basketball", "tennis"} THEN "ball_sport"
    ELSE "other"

\* the calories of the activity, or 8 per minute of elapsed time
ActivityCalories(activity) ==
    IF IntTruthy(Get(activity, "calories", None)) /\ activity.calories > 0
    THEN activity.calories
    ELSE (activity.elapsed_time * 8) \div 60

\* StravaConnector._convert_activity_to_workout: activity["start_date"],
\* activity["elapsed_time"] and activity["id"] raise KeyError when absent
ConvertActivityToWorkout(activity) ==
    IF ~({"start_date", "elapsed_time", "id"} \subseteq DOMAIN activity)
    THEN [exc |-> "KeyError", val |-> activity]
    ELSE NewWorkout(
             [workout_id |-> activity.id,
              athlete_id |-> "default",
              start_time |-> activity.start_date,
              end_time |-> activity.start_date + activity.elapsed_time,
              duration |-> activity.elapsed_time,
              sport |-> Get(activity, "type", "Unknown"),
              sport_category |-> SportCategory(Lower(Get(activity, "type", ""))),
              distance |-> Get(activity, "distance", None),
              calories |-> ActivityCalories(activity),
              heart_rate_avg |-> Get(activity, "average_heartrate", None),
              heart_rate_max |-> Get(activity, "max_heartrate", None),
              elevation_gain |-> Get(activity, "total_elevation_gain", None),
              power_avg |-> Get(activity, "average_watts", None),
              cadence_avg |-> Get(activity, "average_cadence", None),
              training_load |-> None,
              perceived_exertion |-> None,
              has_gps |-> Get(activity, "start_latlng", <<>>) /= <<>>,
              route_hash |-> "None",
              gps_data |->
                  IF Get(activity, "start_latlng", <<>>) /= <<>>
                  THEN [keys |-> {"start_latlng"}, coordinates |-> <<>>,
                        start_latlng |-> activity.start_latlng]
                  ELSE NoGpsData,
              data_source |-> "strava",
              external_ids |-> [strava |-> activity.id],
              raw_data |-> activity,
              data_quality_score |-> 80,
              ml_features_extracted |-> FALSE,
              plugin_data |-> EmptyDict])

\* the loop of StravaConnector.fetch_workouts: an activity whose conversion
\* raises is logged and skipped
RECURSIVE ConvertActivities(_)
Converted(made, rest) == (IF made.exc = NoExc THEN <<made.val>> ELSE <<>>) \o rest

ConvertActivities(activities) ==
    IF activities = <<>> THEN <<>>
    ELSE Converted(ConvertActivityToWorkout(Head(activities)),
                   ConvertActivities(Tail(activities)))

\* StravaConnector.fetch_workouts: nothing without authentication
StravaFetchWorkouts(auth_ok, activities) ==
    IF ~auth_ok THEN <<>> ELSE ConvertActivities(activities)

\* StravaConnector.fetch_biometrics: the reading of the profile weight is
\* built with reading_id, timestamp and metric; BiometricReading requires
\* date_value and metric_type, the ValidationError is caught and the fetch
\* answers []
StravaWeightReading(weight) ==
    NewBiometric([reading_id |-> "strava_weight", athlete_id |-> "default",
                  timestamp |-> 0, metric |-> "weight", value |-> weight,
                  unit |-> "kg", data_source |-> "strava",
                  raw_data |-> [weight |-> weight]])

StravaFetchBiometrics(auth_ok, weight) ==
    IF ~auth_ok THEN <<>>
    ELSE IF ~IntTruthy(weight) THEN <<>>
    ELSE Converted(StravaWeightReading(weight), <<>>)

\* the record a sync_data call returns; the key error is absent from a
\* successful one
SyncDataSuccess(source_name, workouts, biometrics) ==
    [source |-> source_name, workouts |-> workouts, biometrics |-> biometrics,
     success |-> TRUE, error |-> <<>>]

\* a failure record that keeps the workouts fetched before the exception
SyncDataFailurePartial(source_name, error_msg, workouts) ==
    [source |-> source_name, workouts |-> workouts, biometrics |-> <<>>,
     success |-> FALSE, error |-> error_msg]

\* BaseConnector.sync_data, except Exception: `workouts` is what the local
\* variable holds when the exception arrives; the record carries none of it
SyncDataFailure(source_name, error_msg, workouts) ==
    [source |-> source_name, workouts |-> <<>>, biometrics |-> <<>>,
     success |-> FALSE, error |-> error_msg]

\* StravaConnector.sync_data: the two fetches, success whatever they found
StravaSyncData(auth_ok, up) ==
    SyncDataSuccess("strava", StravaFetchWorkouts(auth_ok, up.activities),
                    StravaFetchBiometrics(auth_ok, up.weight))

NoResult == SyncDataFailure("", <<>>, <<>>)

(***************************************************************************)
(* Ingestion orchestrator (core/data_ingestion.py).                        *)
(***************************************************************************)
\* AVAILABLE_CONNECTORS of the connectors package
AVAILABLE_CONNECTORS == {"strava"}

\* BaseConnector.__init__ and StravaConnector.__init__: the configuration is
\* kept as given and its entries are read with dict.get
NewConnector(source_name, config) == [source_name |-> source_name, config |-> config]

\* a configuration with every key set
FullConfig == [client_id |-> "v", client_secret |-> "v", access_token |-> "v"]

\* SyncStatus(data_source=name), as register_connector stores it
NewSyncStatus == [status |-> "pending", error_message |-> <<>>, sync_count |-> 0]

\* the row _store_workouts writes: the 24 columns it binds (the column
\* source takes workout.data_source) and created_at, the time of the write
WorkoutRow(workout, now) ==
    [workout_id |-> workout.workout_id, source |-> workout.data_source,
     columns |-> workout, created_at |-> now]

\* INSERT into workouts without OR REPLACE, were the table to accept it
InsertWorkout(db, row) == db \cup {row}

\* INSERT OR REPLACE INTO workouts: workout_id is the primary key
InsertOrReplaceWorkout(db, row) ==
    {r \in db : r.workout_id /= row.workout_id} \cup {row}

\* _store_workouts
RECURSIVE StoreWorkouts(_, _, _)
StoreWorkouts(db, workouts, now) ==
    IF workouts = <<>> THEN db
    ELSE StoreWorkouts(InsertOrReplaceWorkout(db, WorkoutRow(Head(workouts), now)),
                       Tail(workouts), now)

\* INSERT OR REPLACE INTO biometrics: UNIQUE(date, metric_type, source)
InsertOrReplaceBiometric(db, reading) ==
    {r \in db : <<r.date, r.metric_type, r.source>> /=
                <<reading.date_value, reading.metric_type, reading.data_source>>}
    \cup {[date |-> reading.date_value, metric_type |-> reading.metric_type,
           value |-> reading.value, unit |-> reading.unit,
           source |-> reading.data_source, confidence |-> reading.confidence,
           external_id |-> reading.external_id]}

\* _store_biometrics
RECURSIVE StoreBiometrics(_, _)
StoreBiometrics(db, biometrics) ==
    IF biometrics = <<>> THEN db
    ELSE StoreBiometrics(InsertOrReplaceBiometric(db, Head(biometrics)),
                         Tail(biometrics))

\* _update_sync_status_db: INSERT OR REPLACE of every entry of sync_status
UpdateSyncStatusDb(db, status) ==
    [s \in DOMAIN db \cup DOMAIN status |->
        IF s \in DOMAIN status THEN status[s] ELSE db[s]]

\* all_workouts / all_biometrics: the lists of the successful results, in
\* the order of sources_to_sync
RECURSIVE Extended(_, _, _)
Extended(results, field, i) ==
    IF i > Len(results) THEN <<>>
    ELSE (IF results[i].success THEN results[i][field] ELSE <<>>)
         \o Extended(results, field, i + 1)

\* the names the result loop uses: source_name = sources_to_sync[i] for the
\* i-th of n results
NamesOfResults(names, n) == {names[i] : i \in 1..n}

\* sync_summary['source_results']: the i-th result is stored under the i-th
\* name, a later one replacing an earlier one of the same name
SourceResults(names, results) ==
    [name \in NamesOfResults(names, Len(results)) |->
        results[CHOOSE i \in 1..Len(results) :
                    /\ names[i] = name
                    /\ \A j \in 1..Len(results) : names[j] = name => j <= i]]

\* the result loop of sync_all_sources on sync_status: _sync_source answers
\* a dict for every task, so each name the loop uses that is present in
\* sync_status is set active without an error message
StatusAfterResults(status, names, n) ==
    [s \in DOMAIN status |->
        IF s \in NamesOfResults(names, n)
        THEN [status[s] EXCEPT !.status = "active", !.error_message = <<>>]
        ELSE status[s]]

\* sync_summary after the result loop: every dict result counts as a
\* successful sync, the totals count the records of the results with success
SummaryOfResults(names, results, all_workouts, all_biometrics) ==
    [sources_synced |-> Len(names),
     successful_syncs |-> Len(results),
     failed_syncs |-> 0,
     total_workouts |-> Len(all_workouts),
     total_biometrics |-> Len(all_biometrics),
     source_results |-> SourceResults(names, results),
     workout_deduplication |-> <<>>,
     biometric_deduplication |-> <<>>]

\* the statistics entry of the summary, present when the list was not empty
StatsEntry(original, deduped) ==
    IF original = <<>> THEN <<>>
    ELSE <<GetDeduplicationStats(Len(original), Len(deduped))>>

\* what a sync_all_sources call leaves: the exception it raised or the
\* summary it returned, and the three tables
SyncOutcome(exc, summary, dbw, dbb, dbs) ==
    [exc |-> exc, summary |-> summary, db_workouts |-> dbw, db_biometrics |-> dbb,
     db_sync_status |-> dbs]

\* sync_all_sources from the deduplication on: an exception of the engine
\* leaves the call before anything is stored; with both lists empty the
\* engine is not called and the stores return at once
DedupAndStore(summary, all_w, all_b, deduped_w, deduped_b, status, dbw, dbb, dbs, now) ==
    IF deduped_w.exc /= NoExc THEN SyncOutcome(deduped_w.exc, <<>>, dbw, dbb, dbs)
    ELSE IF deduped_b.exc /= NoExc THEN SyncOutcome(deduped_b.exc, <<>>, dbw, dbb, dbs)
    ELSE SyncOutcome(
             NoExc,
             <<[summary EXCEPT
                  !.workout_deduplication = StatsEntry(all_w, deduped_w.val),
                  !.biometric_deduplication = StatsEntry(all_b, deduped_b.val)]>>,
             StoreWorkouts(dbw, deduped_w.val, now),
             StoreBiometrics(dbb, deduped_b.val),
             UpdateSyncStatusDb(dbs, status))

ProcessResults(names, results, all_workouts, all_biometrics, status, dbw, dbb, dbs, now) ==
    DedupAndStore(SummaryOfResults(names, results, all_workouts, all_biometrics),
                  all_workouts, all_biometrics,
                  DeduplicateWorkouts(all_workouts),
                  DeduplicateBiometrics(all_biometrics),
                  status, dbw, dbb, dbs, now)

\* sync_all_sources once asyncio.gather has returned `results`
SyncAllSources(names, results, status, dbw, dbb, dbs, now) ==
    ProcessResults(names, results, Extended(results, "workouts", 1),
                   Extended(results, "biometrics", 1), status, dbw, dbb, dbs, now)

(***************************************************************************)
(* Sync cycles: the orchestrator holds the two connectors, each service    *)
(* answers the same in every cycle, and sync_all_sources is called up to   *)
(* MaxCycles times in a row.  The task of "garmin" may be suspended at     *)
(* each await of BaseConnector.sync_data; StravaConnector.sync_data makes  *)
(* blocking requests and runs without suspension.                          *)
(***************************************************************************)
SourceSet == Range(Sources)

\* what a fetch of the garmin service answers: a list of at most n records
\* of the pool, or an exception (a subclass of Exception) with its message
FetchOutcomes(pool, n, msg) ==
    {[exc |-> NoExc, msg |-> <<>>, val |-> l] :
        l \in {s \in SeqsUpTo(pool, n) : NoRepeat(s)}}
    \cup {[exc |-> "APIError", msg |-> msg, val |-> <<>>]}


\* the run of RunGarmin as the strava service reports it
ActivityRun ==
    [id |-> "s1", start_date |-> 20, elapsed_time |-> 2580, type |-> "Run",
     start_latlng |-> <<0, 0>>]
\* an activity without elapsed_time
ActivityUntimed == [id |-> "s9", start_date |-> 4000, type |-> "Ride", calories |-> 300]

AuthRaisedMsg == <<"token revoked">>

GarminUpstreams ==
    {[auth |-> a, workouts |-> w, biometrics |-> b] :
        a \in {"true", "false", "raise"},
        w \in FetchOutcomes({RunGarmin, RideGarmin}, MaxFetch,
                            <<"workouts unavailable">>),
        b \in FetchOutcomes({WeightGarmin, WeightGarminAgain}, MaxBio,
                            <<"biometrics unavailable">>)}

StravaUpstreams ==
    {[auth |-> a, activities |-> l, weight |-> w] :
        a \in {"true", "false"},
        l \in {s \in SeqsUpTo({ActivityRun, ActivityUntimed}, MaxFetch) : NoRepeat(s)},
        w \in {None, 70}}

SyncInit ==
    /\ upstream \in {[garmin |-> g, strava |-> st] :
                        g \in GarminUpstreams, st \in StravaUpstreams}
    /\ authenticated = [s \in SourceSet |-> FALSE]
    /\ sync_count = [s \in SourceSet |-> 0]
    /\ sPc = [s \in SourceSet |-> "done"]
    /\ sWorkouts = [s \in SourceSet |-> <<>>]
    /\ sResult = [s \in SourceSet |-> NoResult]
    /\ phase = "idle"
    /\ sync_summary = <<>>
    /\ sRaised = NoExc
    /\ sync_status = [s \in SourceSet |-> NewSyncStatus]
    /\ db_workouts = {}
    /\ db_biometrics = {}
    /\ db_sync_status = EmptyDict
    /\ cycle = 0
    /\ sources_to_sync = <<>>
    /\ connectors = [s \in SourceSet |-> NewConnector(s, FullConfig)]
    /\ data_sources = SourceSet
    /\ regIn = <<>>
    /\ regOut = FALSE
    /\ regN = 0
    /\ DedupIdle /\ ReqIdle /\ CalIdle

dbVars == <<db_workouts, db_biometrics, db_sync_status>>

\* the `sources` argument: absent, or a list that names every registered
\* connector after a name that has none
RequestedSources == {<<>>, <<"polar">> \o Sources}

\* sources_to_sync = sources if sources else list(self.connectors.keys())
SourcesToSync(sources) == IF sources /= <<>> THEN sources ELSE Sources

\* the names of sources_to_sync that have a connector: one task each, in order
SyncTasks(names) == SelectSeq(names, LAMBDA name : name \in DOMAIN connectors)

\* what asyncio.gather returns: the results of the tasks in task order
Gathered(tasks, task_results) == [i \in 1..Len(tasks) |-> task_results[tasks[i]]]

\* sync_all_sources up to asyncio.gather: one _sync_source task per name of
\* sources_to_sync that has a connector
StartSync ==
    /\ phase = "idle"
    /\ cycle < MaxCycles
    /\ phase' = "gathering"
    /\ \E sources \in RequestedSources : sources_to_sync' = SourcesToSync(sources)
    /\ sPc' = [s \in SourceSet |->
                 IF s \notin BaseSources THEN "sync_data"
                 ELSE IF authenticated[s] THEN "fetch_workouts"
                 ELSE "authenticate"]
    /\ sWorkouts' = [s \in SourceSet |-> <<>>]
    /\ sResult' = [s \in SourceSet |-> NoResult]
    /\ sync_summary' = <<>>
    /\ sRaised' = NoExc
    /\ UNCHANGED <<upstream, authenticated, sync_count, sync_status, dbVars, cycle,
                   notSync>>

\* the task of s ends with the record sync_data returns
Returned(s, result) ==
    /\ sResult' = [sResult EXCEPT ![s] = result]
    /\ sPc' = [sPc EXCEPT ![s] = "done"]

\* BaseConnector.sync_data: await self.authenticate()
DoAuthenticate(s) ==
    /\ phase = "gathering"
    /\ sPc[s] = "authenticate"
    /\ \/ /\ upstream[s].auth = "true"
          /\ authenticated' = [authenticated EXCEPT ![s] = TRUE]
          /\ sPc' = [sPc EXCEPT ![s] = "fetch_workouts"]
          /\ UNCHANGED sResult
       \/ /\ upstream[s].auth = "false"
          /\ Returned(s, SyncDataFailure(s, <<"Failed to authenticate with", s>>,
                                         sWorkouts[s]))
          /\ UNCHANGED authenticated
       \/ /\ upstream[s].auth = "raise"
          /\ Returned(s, SyncDataFailure(s, AuthRaisedMsg, sWorkouts[s]))
          /\ UNCHANGED authenticated
    /\ UNCHANGED <<upstream, sync_count, sWorkouts, phase, sync_summary, sRaised,
                   sync_status, dbVars, cycle, sources_to_sync, notSync>>

\* BaseConnector.sync_data: await self.fetch_workouts(...)
DoFetchWorkouts(s) ==
    /\ phase = "gathering"
    /\ sPc[s] = "fetch_workouts"
    /\ IF upstream[s].workouts.exc = NoExc
       THEN /\ sWorkouts' = [sWorkouts EXCEPT ![s] = upstream[s].workouts.val]
            /\ sPc' = [sPc EXCEPT ![s] = "fetch_biometrics"]
            /\ UNCHANGED sResult
       ELSE /\ Returned(s, SyncDataFailure(s, upstream[s].workouts.msg, sWorkouts[s]))
            /\ UNCHANGED sWorkouts
    /\ UNCHANGED <<upstream, authenticated, sync_count, phase, sync_summary, sRaised,
                   sync_status, dbVars, cycle, sources_to_sync, notSync>>

\* BaseConnector.sync_data: await self.fetch_biometrics(...), then
\* update_sync_status(True) and the success record
DoFetchBiometrics(s) ==
    /\ phase = "gathering"
    /\ sPc[s] = "fetch_biometrics"
    /\ IF upstream[s].biometrics.exc = NoExc
       THEN /\ Returned(s, SyncDataSuccess(s, sWorkouts[s], upstream[s].biometrics.val))
            /\ sync_count' = [sync_count EXCEPT ![s] = @ + 1]
       ELSE /\ Returned(s, SyncDataFailure(s, upstream[s].biometrics.msg,
                                           sWorkouts[s]))
            /\ UNCHANGED sync_count
    /\ UNCHANGED <<upstream, authenticated, sWorkouts, phase, sync_summary, sRaised,
                   sync_status, dbVars, cycle, sources_to_sync, notSync>>

\* StravaConnector.sync_data: each fetch authenticates first when the
\* connector is not authenticated
DoStravaSyncData(s) ==
    /\ phase = "gathering"
    /\ sPc[s] = "sync_data"
    /\ authenticated' =
           [authenticated EXCEPT ![s] = @ \/ upstream[s].auth = "true"]
    /\ Returned(s, StravaSyncData(authenticated[s] \/ upstream[s].auth = "true",
                                  upstream[s]))
    /\ UNCHANGED <<upstream, sync_count, sWorkouts, phase, sync_summary, sRaised,
                   sync_status, dbVars, cycle, sources_to_sync, notSync>>

\* the call ends with what `out` says
FinishWith(out) ==
    /\ sRaised' = out.exc
    /\ sync_summary' = out.summary
    /\ db_workouts' = out.db_workouts
    /\ db_biometrics' = out.db_biometrics
    /\ db_sync_status' = out.db_sync_status

\* asyncio.wait(..., return_when=FIRST_COMPLETED) in place of gather
GatherReturnedFirst == \E s \in SourceSet : sPc[s] = "done"

\* results = await asyncio.gather(*sync_tasks, return_exceptions=True):
\* the call resumes when every task has ended
GatherReturned == \A s \in SourceSet : sPc[s] = "done"

\* sync_all_sources from the return of asyncio.gather to its own return
Finish ==
    /\ phase = "gathering"
    /\ GatherReturned
    /\ FinishWith(SyncAllSources(
                      sources_to_sync, Gathered(SyncTasks(sources_to_sync), sResult),
                      StatusAfterResults(sync_status, sources_to_sync,
                                         Len(SyncTasks(sources_to_sync))),
                      db_workouts, db_biometrics, db_sync_status, cycle + 1))
    /\ sync_status' = StatusAfterResults(sync_status, sources_to_sync,
                                         Len(SyncTasks(sources_to_sync)))
    /\ phase' = "idle"
    /\ cycle' = cycle + 1
    /\ UNCHANGED <<upstream, authenticated, sync_count, sPc, sWorkouts, sResult,
                   sources_to_sync, notSync>>

SyncNext ==
    \/ StartSync
    \/ \E s \in BaseSources : DoAuthenticate(s)
    \/ \E s \in BaseSources : DoFetchWorkouts(s)
    \/ \E s \in BaseSources : DoFetchBiometrics(s)
    \/ \E s \in SourceSet \ BaseSources : DoStravaSyncData(s)
    \/ Finish

SpecSync == SyncInit /\ [][SyncNext]_vars

(***************************************************************************)
(* Registration (DataIngestionOrchestrator.register_connector): the        *)
(* orchestrator starts without connectors on an empty database and         *)
(* register_connector is called up to MaxRegs times with a name and a      *)
(* configuration dict.                                                     *)
(***************************************************************************)
\* the names register_connector is called with: "strava" is in the registry
\* of the package, "garmin" is not
RegNames == {"strava", "garmin"}

\* configuration dicts: each key absent, present and empty, or present
\* with a value
RegConfigs ==
    UNION {[keys -> {"", "v"}] :
              keys \in SUBSET {"client_id", "client_secret", "access_token"}}

\* get_required_config_fields of the connector class registered under name
GetRequiredConfigFields(name) ==
    IF name = "strava" THEN {"client_id", "client_secret"} ELSE {}

\* get_connector: ValueError for a name outside the registry, else the
\* connector the class constructor builds from the configuration
GetConnector(source_name, config) ==
    IF source_name \notin AVAILABLE_CONNECTORS
    THEN [exc |-> "ValueError", val |-> <<>>]
    ELSE [exc |-> NoExc, val |-> NewConnector(source_name, config)]

\* register_connector after get_connector: the handler answers False to any
\* exception; otherwise the connector is stored, its row is saved, a
\* SyncStatus is created when the name has none, and the answer is True
RegisterConnector(name, made) ==
    IF made.exc /= NoExc
    THEN /\ regOut' = FALSE
         /\ UNCHANGED <<connectors, data_sources, sync_status>>
    ELSE /\ regOut' = TRUE
         /\ connectors' = DictSet(connectors, name, made.val)
         /\ data_sources' = data_sources \cup {name}
         /\ sync_status' = IF name \in DOMAIN sync_status THEN sync_status
                           ELSE DictSet(sync_status, name, NewSyncStatus)

\* register_connector(name, config)
DoRegisterConnector ==
    /\ regN < MaxRegs
    /\ \E name \in RegNames, config \in RegConfigs :
          /\ regIn' = [name |-> name, config |-> config]
          /\ RegisterConnector(name, GetConnector(name, config))
    /\ regN' = regN + 1
    /\ UNCHANGED notReg

RegInit == DedupIdle /\ ReqIdle /\ CalIdle /\ SyncIdle

RegNext == DoRegisterConnector

SpecReg == RegInit /\ [][RegNext]_vars

(***************************************************************************)
(* Properties of the calorie cascade, checked under SpecCal, and of the    *)
(* calibration loop, checked under SpecCalib.                              *)
(***************************************************************************)
\* the workout of the calculation carries device calories 500 and quality 0.95
DeviceCalories500 ==
    /\ cOp = "calculate_enhanced"
    /\ cIn.workout.calories = 500
    /\ cIn.workout.data_quality_score = 95

C8_CalorieCap ==
    (cOp = "calculate_enhanced" /\ cResult.method /= "direct_strava")
    => cResult.calories * 60 <= MaxCpm(cIn.workout.sport) * cIn.workout.duration

\* C9: after N >= 1 calls of calculate_for_athlete for one athlete and sport
\* with workouts that carry device calories (below the direct-method quality),
\* the call has returned an estimate and a calibration factor is stored for
\* the pair, the precondition of the factor approaching the ratio r.
C9_CalibrationStored ==
    (cOp = "calculate_for_athlete" /\ IntTruthy(cIn.workout.calories)
     /\ ~HighQuality(cIn.workout))
    => /\ cResult.exc = NoExc
       /\ <<cIn.athlete_id, cIn.workout.sport>> \in DOMAIN athlete_calorie_calibration
       /\ athlete_calorie_calibration[<<cIn.athlete_id, cIn.workout.sport>>]
              .sample_count >= 1

(***************************************************************************)
(* Properties of make_request, checked under SpecReq.                      *)
(***************************************************************************)
\* C10: when the request function raises AuthenticationError or APIError,
\* make_request does not invoke it again and re-raises that same error to the
\* caller, with no sleep and no retry after the failure: the failed invocation
\* is the last thing the call did, in the attempt in which it was made.
C10_NoRetryOnAuthOrApiError ==
    \A i \in 1..Len(rLog) :
        (rLog[i].ev = "call" /\ rLog[i].outcome \in {"APIError", "AuthenticationError"})
        => /\ i = Len(rLog)
           /\ rPc = "raised"
           /\ rRaised = [kind |-> rLog[i].outcome, origin |-> i]
           /\ attempt = rLog[i].attempt
           /\ Cardinality({j \in 1..Len(rLog) :
                              rLog[j].ev = "call" /\ rLog[j].attempt = attempt}) = 1

\* the first invocation raised AuthenticationError and the call has ended
C10_Witness ==
    /\ rPc = "raised"
    /\ rRaised.kind = "AuthenticationError"
    /\ rLog = <<[ev |-> "call", outcome |-> "AuthenticationError", retry_after |-> 0,
                 attempt |-> 0]>>

\* the invocations of request_func the call has made so far
Calls == SelectSeq(rLog, LAMBDA e : e.ev = "call")

\* request_func returned a result (whether or not its headers could be read)
Succeeded(e) == e.ev = "call" /\ e.outcome \in {"ok", "ok_headers_raise"}

\* neither a rate limit nor an error that is re-raised at once
Transient(e) ==
    e.ev = "call" /\ ExceptClause(e.outcome) = "other" /\ e.outcome /= "ok"

\* C11: every make_request call makes at most 3 invocations of the request
\* function, whatever mix of rate-limit and transient failures occurs; it
\* returns the first successful result without further invocations; between
\* transient retries it waits the base delay doubled per attempt (1 s, then
\* 2 s) plus a jitter below 1 s; it raises APIError when the third attempt
\* fails transiently.
C11_BoundedRetries ==
    /\ Len(Calls) <= max_retries
    /\ \A i \in 1..Len(rLog) :
           Succeeded(rLog[i]) => i = Len(rLog) /\ rPc = "returned"
    /\ \A i \in 2..Len(rLog) :
           (rLog[i].ev = "sleep" /\ rLog[i].why = "backoff")
           => /\ Transient(rLog[i - 1])
              /\ rLog[i].lo = 10 * Pow2(rLog[i - 1].attempt)
              /\ rLog[i].hi = rLog[i].lo + 10
              /\ rLog[i].lo \in {10, 20}
    /\ (rPc \in {"returned", "raised"} /\ rLog /= <<>>
        /\ Transient(rLog[Len(rLog)]) /\ rLog[Len(rLog)].attempt = max_retries - 1)
       => rPc = "raised" /\ rRaised.kind = "APIError"

\* request_func raised RateLimitError in the invocation logged at i
RateLimited(i) == rLog[i].ev = "call" /\ rLog[i].outcome = "RateLimitError"

SpacedApart(i, j) ==
    \E k \in (i + 1)..(j - 1) :
        rLog[k].ev = "sleep" /\ rLog[k].lo >= min_request_interval

\* C13: any two consecutive invocations of the request function that one
\* make_request call issues are at least min_request_interval apart,
\* including a retry that follows a failed or rate-limited attempt (such as
\* a rate limit with retry_after = 0).
C13_MinRequestSpacing ==
    \A i, j \in 1..Len(rLog) :
        (/\ i < j
         /\ rLog[i].ev = "call"
         /\ rLog[j].ev = "call"
         /\ \A k \in (i + 1)..(j - 1) : rLog[k].ev /= "call")
        => SpacedApart(i, j)

(***************************************************************************)
(* Properties of the deduplication engine, checked under SpecDedup.        *)
(***************************************************************************)
\* the member of a two-record group whose source comes first in PRECEDENCE
HigherOf(pair) ==
    IF GetSourcePrecedence(pair[1].data_source) < GetSourcePrecedence(pair[2].data_source)
    THEN pair[1] ELSE pair[2]
LowerOf(pair) == IF HigherOf(pair) = pair[1] THEN pair[2] ELSE pair[1]

\* C4: for a merge group of two records from sources A (earlier in the
\* precedence list) and B, _merge_workout_group returns a record whose
\* workout_id, start_time, end_time, duration, sport, sport_category and source
\* are A's and whose calories are max(A.calories, B.calories); a source outside
\* the precedence list ranks below every listed source.
C4_MergePrecedence ==
    (/\ dOp = "merge_workout_group"
     /\ Len(dIn) = 2
     /\ GetSourcePrecedence(dIn[1].data_source) /= GetSourcePrecedence(dIn[2].data_source))
    => /\ dOut.exc = NoExc
       /\ Len(dOut.val) = 1
       /\ \A f \in {"workout_id", "start_time", "end_time", "duration", "sport",
                    "sport_category", "data_source"} :
              dOut.val[1][f] = HigherOf(dIn)[f]
       /\ (HigherOf(dIn).calories /= None /\ LowerOf(dIn).calories /= None)
              => dOut.val[1].calories
                   = Max2(HigherOf(dIn).calories, LowerOf(dIn).calories)
       /\ \A src \in Range(PRECEDENCE) :
              GetSourcePrecedence(src) < GetSourcePrecedence("polar")

\* C5: two same-category workouts that start 20 s apart with durations of 42
\* and 43 minutes, the higher-precedence one without GPS and the other with GPS
\* and a route fingerprint, are deduplicated to exactly one workout with the
\* higher-precedence start_time and duration, has_gps true, and route_hash and
\* gps_data copied from the GPS-carrying record.
C5_ScenarioMerged ==
    (/\ dOp = "deduplicate_workouts"
     /\ Len(dIn) = 2
     /\ Range(dIn) = {RunGarmin, RunStrava})
    => /\ dOut.exc = NoExc
       /\ Len(dOut.val) = 1
       /\ dOut.val[1].start_time = RunGarmin.start_time
       /\ dOut.val[1].duration = RunGarmin.duration
       /\ dOut.val[1].has_gps
       /\ dOut.val[1].route_hash = RunStrava.route_hash
       /\ dOut.val[1].gps_data = RunStrava.gps_data

\* C6: _are_gps_similar(X, Y) equals _are_gps_similar(Y, X) for any two
\* workouts, on the route-fingerprint path and on the coordinate path.
C6_GpsSymmetric ==
    dOp = "are_gps_similar" => dOut.val[1] = dOut.val[2]

\* two workouts with GPS, no fingerprint and coordinate lists of different
\* lengths were compared both ways and found similar
C6_Witness ==
    /\ dOp = "are_gps_similar"
    /\ dIn[1].has_gps /\ dIn[2].has_gps
    /\ ~StrTruthy(dIn[1].route_hash)
    /\ Len(dIn[1].gps_data.coordinates) /= Len(dIn[2].gps_data.coordinates)
    /\ dOut.val = <<TRUE, TRUE>>

(***************************************************************************)
(* Properties of the connector contract and of the sync cycle, checked     *)
(* under SpecSync.                                                         *)
(***************************************************************************)
\* the sync_data call of s has ended after a failure: authentication did
\* not succeed, or a fetch raised
SyncDataFailed(s) ==
    /\ phase = "gathering"
    /\ sPc[s] = "done"
    /\ \/ ~authenticated[s]
       \/ upstream[s].workouts.exc /= NoExc
       \/ upstream[s].biometrics.exc /= NoExc

\* the message of the first failure the call met
FailureMessage(s) ==
    IF ~authenticated[s]
    THEN (IF upstream[s].auth = "false" THEN <<"Failed to authenticate with", s>>
          ELSE AuthRaisedMsg)
    ELSE IF upstream[s].workouts.exc /= NoExc THEN upstream[s].workouts.msg
    ELSE upstream[s].biometrics.msg

\* C1: BaseConnector.sync_data never raises to its caller: whenever
\* authenticate returns false, or authenticate, fetch_workouts or
\* fetch_biometrics raises, the call returns a record with success false,
\* the error message and empty workouts and biometrics lists, also when
\* workouts had been fetched before the failure.
C1_SyncDataFailureResult ==
    \A s \in BaseSources :
        SyncDataFailed(s) =>
            /\ sResult[s].source = s
            /\ sResult[s].success = FALSE
            /\ sResult[s].error = FailureMessage(s)
            /\ sResult[s].workouts = <<>>
            /\ sResult[s].biometrics = <<>>

\* a sync_data call that fetched workouts and then failed in fetch_biometrics
C1_Witness ==
    /\ SyncDataFailed("garmin")
    /\ authenticated["garmin"]
    /\ upstream["garmin"].workouts.val /= <<>>
    /\ upstream["garmin"].biometrics.exc /= NoExc
    /\ sResult["garmin"].success = FALSE

\* the sync of source a succeeds / the sync of source b fails in authenticate
SyncSucceeds(a) ==
    /\ upstream[a].auth = "true"
    /\ a \in BaseSources =>
           upstream[a].workouts.exc = NoExc /\ upstream[a].biometrics.exc = NoExc

AuthenticationFails(b) == upstream[b].auth /= "true"

\* the records source a fetches
FetchedWorkouts(a) ==
    IF a \in BaseSources THEN upstream[a].workouts.val
    ELSE StravaFetchWorkouts(TRUE, upstream[a].activities)

FetchedBiometrics(a) ==
    IF a \in BaseSources THEN upstream[a].biometrics.val
    ELSE StravaFetchBiometrics(TRUE, upstream[a].weight)

\* C2: in one sync_all_sources cycle over connectors A and B, if B fails
\* during authentication while the sync of A succeeds, then under every
\* interleaving of the two tasks the call returns a summary, every record A
\* fetched is in the store, and the summary's entry for B is a failure that
\* carries B's message.
C2_PartialFailureIsolation ==
    \A a, b \in SourceSet :
        (/\ a /= b
         /\ phase = "idle"
         /\ cycle = 1
         /\ sources_to_sync = Sources
         /\ SyncSucceeds(a)
         /\ AuthenticationFails(b))
        => /\ sRaised = NoExc
           /\ sync_summary /= <<>>
           /\ \A i \in 1..Len(FetchedWorkouts(a)) :
                  \E r \in db_workouts :
                      r.workout_id = FetchedWorkouts(a)[i].workout_id
           /\ \A i \in 1..Len(FetchedBiometrics(a)) :
                  \E r \in db_biometrics :
                      /\ r.date = FetchedBiometrics(a)[i].date_value
                      /\ r.metric_type = FetchedBiometrics(a)[i].metric_type
                      /\ r.source = FetchedBiometrics(a)[i].data_source
           /\ sync_summary[1].source_results[b].success = FALSE
           /\ sync_summary[1].source_results[b].error /= <<>>

\* the persisted workouts as the claim reads them: ids and written columns
PersistedWorkouts(db) == {<<r.workout_id, r.columns>> : r \in db}

\* C3: once sync_all_sources has run, running it again on the same
\* upstream data leaves the persisted workouts and biometrics as they
\* were: the same workout ids with the same contents in the columns the
\* store writes, the same biometric rows, and no additional rows.
C3_SecondRunIdempotent ==
    [][cycle >= 1 =>
          /\ PersistedWorkouts(db_workouts') = PersistedWorkouts(db_workouts)
          /\ Cardinality(db_workouts') = Cardinality(db_workouts)
          /\ db_biometrics' = db_biometrics]_vars

\* a second run has ended on a store that holds workouts
C3_Witness ==
    /\ cycle = 2
    /\ phase = "idle"
    /\ sRaised = NoExc
    /\ db_workouts /= {}

\* two workouts are matched by one of the three passes: a shared external
\* id, temporal similarity, or GPS similarity of two routed workouts
Matched(w1, w2) ==
    \/ Range(KeysOf(w1)) \cap Range(KeysOf(w2)) /= {}
    \/ ~TemporalZeroDivision(w1, w2) /\ AreTemporallySimilar(w1, w2)
    \/ /\ w1.has_gps /\ StrTruthy(w1.route_hash)
       /\ w2.has_gps /\ StrTruthy(w2.route_hash)
       /\ AreGpsSimilar(w1, w2)

\* the positions connected to those of S, directly or through a chain
RECURSIVE Connected(_, _)
Connected(workouts, S) ==
    LET T == S \cup {j \in 1..Len(workouts) :
                        \E i \in S : Matched(workouts[i], workouts[j])}
    IN IF T = S THEN S ELSE Connected(workouts, T)

\* the sets of connected workouts
MergeSets(workouts) == {Connected(workouts, {i}) : i \in 1..Len(workouts)}

\* C14: deduplicate_workouts merges every set of workouts that are connected,
\* directly or through a chain of other workouts, by at least one of the
\* external-id, temporal or GPS passes into one single output record: the
\* output holds one record per connected set.
C14_TransitiveMerge ==
    dOp = "deduplicate_workouts"
    => /\ dOut.exc = NoExc
       /\ Len(dOut.val) = Cardinality(MergeSets(dIn))

\* C15: deduplicate_workouts is order-independent: for every permutation of
\* the same input list it returns the same set of merged records (same group
\* membership and same merged field values).
C15_OrderIndependent ==
    dOp = "deduplicate_permuted"
    => /\ dOut.val[1].exc = NoExc
       /\ dOut.val[2].exc = NoExc
       /\ Range(dOut.val[1].val) = Range(dOut.val[2].val)

(***************************************************************************)
(* Calibration and the device-reported method, checked under SpecCalib.    *)
(***************************************************************************)
\* C16: when calculate_for_athlete is given a workout that the direct
\* device-reported method resolves (device calories, quality above the
\* threshold), the call returns the device value by that method, whatever
\* factor is stored for the athlete and sport.
C16_DirectNotCalibrated ==
    (cOp = "calculate_for_athlete" /\ IntTruthy(cIn.workout.calories)
     /\ HighQuality(cIn.workout))
    => /\ cResult.exc = NoExc
       /\ cResult.method = "direct_strava"
       /\ cResult.calories = cIn.workout.calories

(***************************************************************************)
(* The result loop of sync_all_sources, checked under SpecSync.            *)
(***************************************************************************)
\* the sources whose sync result of the cycle is a success, a failure
SucceededSources == {s \in SourceSet : sResult[s].success}
FailedSources == {s \in SourceSet : ~sResult[s].success}

\* a cycle has ended and no later one has begun
CycleEnded == phase = "idle" /\ cycle > 0

\* C17: in the summary sync_all_sources returns, failed_syncs is the number of
\* sources whose result is a failure, successful_syncs the number whose result
\* is a success, and the two add up to the number of sources run.
C17_SummaryCounts ==
    (CycleEnded /\ sync_summary /= <<>>)
    => /\ sync_summary[1].failed_syncs = Cardinality(FailedSources)
       /\ sync_summary[1].successful_syncs = Cardinality(SucceededSources)
       /\ sync_summary[1].failed_syncs + sync_summary[1].successful_syncs
              = sync_summary[1].sources_synced

\* C18: after a sync cycle, the SyncState of every source whose sync failed
\* holds the status error with the failure message, and that of every source
\* that succeeded holds the status active with no error message.
C18_FailureRecorded ==
    CycleEnded
    => \A s \in SourceSet :
           IF sResult[s].success
           THEN sync_status[s].status = "active" /\ sync_status[s].error_message = <<>>
           ELSE sync_status[s].status = "error"
                /\ sync_status[s].error_message = sResult[s].error

\* C19: within a sync cycle, every step that changes a table of the
\* persistence store (workouts, biometrics, sync_status) or the calibration
\* store is taken when all connector tasks of the cycle have ended; while a
\* task is still running the stores stay as they are.
C19_WritesFollowTasks ==
    [][(<<dbVars, athlete_calorie_calibration, calibration_cache>>'
            /= <<dbVars, athlete_calorie_calibration, calibration_cache>>)
       => (phase = "gathering" /\ \A s \in SourceSet : sPc[s] = "done")]_vars

\* in the second cycle one task has ended with workouts to store and another
\* is still running, and the tables hold what the first cycle wrote
C19_Witness ==
    /\ cycle = 1
    /\ phase = "gathering"
    /\ \E s \in SourceSet : sPc[s] /= "done"
    /\ \E s \in SourceSet : sPc[s] = "done" /\ sResult[s].workouts /= <<>>
    /\ db_workouts /= {}
    /\ DOMAIN db_sync_status = SourceSet

(***************************************************************************)
(* Registration, checked under SpecReg.                                    *)
(***************************************************************************)
\* the configuration has no entry for a key the connector requires
LacksRequiredKey(name, config) ==
    \E field \in GetRequiredConfigFields(name) : field \notin DOMAIN config

\* C20: a register_connector call whose configuration lacks a required key
\* returns false and leaves the registered connectors and the SyncState map
\* as they were.
C20_RejectsIncompleteConfig ==
    [][(regN' /= regN /\ LacksRequiredKey(regIn'.name, regIn'.config))
       => (regOut' = FALSE /\ connectors' = connectors
           /\ sync_status' = sync_status)]_vars

(***************************************************************************)
(* Failure handling of a sync cycle, checked under SpecSync.               *)
(***************************************************************************)
\* the sync task of s has ended in the current or the last cycle
TaskEnded(s) == sPc[s] = "done" /\ (phase = "gathering" \/ cycle > 0)

\* the authentication of s fails in every cycle: its service refuses it
AuthenticationFailed(s) == upstream[s].auth /= "true"

\* C21: if the authentication of a connector fails during a sync, the sync
\* result of that source has success = false and carries an error; this holds
\* for the connectors that inherit sync_data and for StravaConnector.
C21_AuthFailureFailsSource ==
    \A s \in SourceSet :
        (TaskEnded(s) /\ AuthenticationFailed(s))
        => (~sResult[s].success /\ sResult[s].error /= <<>>)

\* C22: sync_all_sources never raises: whatever the connectors answered and
\* whatever records reached the deduplication, the call ends by returning a
\* summary.
C22_SummaryAlwaysReturned ==
    CycleEnded => (sRaised = NoExc /\ sync_summary /= <<>>)

(***************************************************************************)
(* make_request and the plain ConnectorError, checked under SpecReq.       *)
(***************************************************************************)
\* C24: when the request function raises a plain ConnectorError, make_request
\* does not retry: that invocation is the last thing the call did and the
\* ConnectorError is what the caller receives.
C24_NoRetryOnConnectorError ==
    \A i \in 1..Len(rLog) :
        (rLog[i].ev = "call" /\ rLog[i].outcome = "ConnectorError")
        => /\ i = Len(rLog)
           /\ rPc = "raised"
           /\ rRaised = [kind |-> "ConnectorError", origin |-> i]

(***************************************************************************)
(* The calibration record, checked under SpecCalib.                        *)
(***************************************************************************)
\* the (athlete, sport) pair and the device/estimate ratio of an
\* _update_calibration call with these arguments
CalibrationKey(args) == <<args.athlete_id, args.sport>>
RatioAccepted(args) ==
    /\ args.predicted_calories > 0
    /\ RatLeq(Rat(1, 2), Rat(args.actual_calories, args.predicted_calories))
    /\ RatLeq(Rat(args.actual_calories, args.predicted_calories), Rat(2, 1))

\* factor = (oldFactor * sampleCount + ratio) / (sampleCount + 1)
RunningAverage(record, ratio) ==
    [calibration_factor |->
         RatMul(RatAdd(RatMul(record.calibration_factor, RatInt(record.sample_count)),
                       ratio),
                Rat(1, record.sample_count + 1)),
     sample_count |-> record.sample_count + 1]

\* the rows of the pairs other than key are the same in both tables
SameElsewhere(before, after, key) ==
    /\ DOMAIN after = DOMAIN before \cup {key}
    /\ \A k \in DOMAIN before \ {key} : after[k] = before[k]

IdPairs(external_ids) == {<<src, external_ids[src]>> : src \in DOMAIN external_ids}

\* C25: the external_ids map that _merge_workout_data builds for a merge group
\* contains every (source, external-id) pair carried by every member of the
\* group, also when two members carry different ids for one source.
C25_ExternalIdsUnion ==
    dOp = "merge_workout_data"
    => \A i \in 1..Len(dIn) :
           IdPairs(dIn[i].external_ids) \subseteq IdPairs(dOut.val[1].external_ids)

\* both workouts have GPS and raw coordinates, neither has a route
\* fingerprint, and the share of corresponding samples within 10 m reaches
\* the similarity threshold
RawGpsSimilar(w1, w2) ==
    /\ w1.has_gps /\ w2.has_gps
    /\ ~StrTruthy(w1.route_hash) /\ ~StrTruthy(w2.route_hash)
    /\ GpsTruthy(w1.gps_data) /\ GpsTruthy(w2.gps_data)
    /\ AtLeastThreshold(CalculateGpsSimilarity(w1.gps_data, w2.gps_data))

\* C26: two workouts of the input of deduplicate_workouts that are similar by
\* their raw coordinates and have no route fingerprint are merged into one
\* record: the call returns and its output does not hold the two as separate
\* records.
C26_RawGpsMerged ==
    dOp = "deduplicate_workouts"
    => \A i, j \in 1..Len(dIn) :
           (i < j /\ RawGpsSimilar(dIn[i], dIn[j]))
           => /\ dOut.exc = NoExc
              /\ ~(InList(dIn[i], dOut.val) /\ InList(dIn[j], dOut.val))

\* the (date, metric type, source) key of a reading
ReadingKey(r) == <<r.date_value, r.metric_type, r.data_source>>
\* the readings of the list with this key, in input order
WithKey(readings, key) == SelectSeq(readings, LAMBDA r : ReadingKey(r) = key)
ConfidenceSum(readings) == SeqSum([i \in 1..Len(readings) |-> readings[i].confidence])
WeightedSum(readings) ==
    SeqSum([i \in 1..Len(readings) |-> readings[i].value * readings[i].confidence])

\* the reading out stands for the readings of one key: the reading itself
\* when it is alone, else value = sum(value * confidence) / sum(confidence)
\* and confidence = min(1.0, mean confidence), as rationals
StandsFor(out, group) ==
    IF Len(group) = 1 THEN out = group[1]
    ELSE /\ ConfidenceSum(group) /= 0
         /\ RatLeq(out.value, <<WeightedSum(group), ConfidenceSum(group)>>)
         /\ RatLeq(<<WeightedSum(group), ConfidenceSum(group)>>, out.value)
         /\ RatLeq(out.confidence, RatMin(<<100, 1>>, <<ConfidenceSum(group), Len(group)>>))
         /\ RatLeq(RatMin(<<100, 1>>, <<ConfidenceSum(group), Len(group)>>), out.confidence)

\* C27: deduplicate_biometrics returns exactly one reading per distinct
\* (date, metric type, source) key of its input; for a key with several
\* readings it carries the confidence-weighted mean value and the mean
\* confidence capped at 1.0, and readings of different keys are not combined.
C27_OneReadingPerKey ==
    dOp = "deduplicate_biometrics"
    => /\ dOut.exc = NoExc
       /\ Len(dOut.val) = Cardinality({ReadingKey(bIn[i]) : i \in 1..Len(bIn)})
       /\ \A i \in 1..Len(bIn) :
              \E j \in 1..Len(dOut.val) :
                  StandsFor(dOut.val[j], WithKey(bIn, ReadingKey(bIn[i])))

\* C28: for every input list deduplicate_workouts returns no more records
\* than it received, two workouts matched by a pass (by one shared
\* external-id pair or by several) leave one record in place of the two, and
\* duplicates_removed of the statistics is not negative.
C28_OutputNoLarger ==
    dOp = "deduplicate_workouts"
    => /\ dOut.exc = NoExc
       /\ Len(dOut.val) <= Len(dIn)
       /\ \A i, j \in 1..Len(dIn) :
              (i < j /\ Matched(dIn[i], dIn[j])) => Len(dOut.val) < Len(dIn)
       /\ GetDeduplicationStats(Len(dIn), Len(dOut.val)).duplicates_removed >= 0

C30_ResultsUnderOwnName ==
    (CycleEnded /\ sync_summary /= <<>>)
    => /\ \A name \in DOMAIN sync_summary[1].source_results :
              sync_summary[1].source_results[name].source = name
       /\ \A s \in SourceSet :
              /\ s \in DOMAIN sync_summary[1].source_results
              /\ sync_status[s].status /= "pending"

====
